---- MODULE Spec2Model ----
(***************************************************************************)
(* A model of the digiasset codec family of digibyte-js: the issue-flags   *)
(* byte, the payment and burn-payment records, the issuance and            *)
(* transfer/burn records with their byte-budget fitting, and the Asset     *)
(* orchestrator's skip/input transform and opcode dispatch, its coin       *)
(* selection, identifier derivation and assembly of a transfer or burn     *)
(* transaction.                                                            *)
(*                                                                         *)
(* JavaScript objects are records whose domain is the set of properties    *)
(* that are defined: Has(o, k) is `typeof o.k !== 'undefined'`.  Buffers   *)
(* are sequences of bytes.  A call either returns a value or throws:       *)
(* Returned(v) and Threw(e), e being the message of the Error thrown.      *)
(***************************************************************************)
EXTENDS Integers, Sequences, FiniteSets, TLC

VARIABLES
  pc,              \* the specification under way and the step it is at
  flagsParams,     \* IssueFlagsEncoder: the params the instance was made from
  flagsThis,       \* IssueFlagsEncoder: the instance encode() is called on
  flagsRes,        \* IssueFlagsEncoder: what encode() gave
  flagsDec,        \* IssueFlagsEncoder: what decode() gave on that byte
  codec,           \* the payment codec in use: "payment" or "burn"
  payment,         \* the params of the one payment encoded
  encRes,          \* what encode() of the payment gave
  decRes,          \* what decode() gave on those bytes
  paymentsArray,   \* the array handed to encodeBulk
  bulkRes,         \* what encodeBulk gave
  bulkDec,         \* what decodeBulk gave on those bytes
  payments,        \* Asset.payments, each with its input index
  skipRes,         \* what paymentsInputToSkip(payments) gave
  inputRes,        \* what paymentsSkipToInput gave on that
  record,          \* the record an encoder instance is made from
  budget,          \* the byte budget given to encode
  recRes,          \* what encode(byteSize) of the record gave
  recDec,          \* what the codec's decode gave on those bytes
  assetRes,        \* what Asset.fromBuffer gave on those bytes
  walletUtxos,     \* the unspent outputs given to addInputsForSendTransaction
  neededAssets,    \* assetList: per asset its amount, done, change and inputs
  assetOrder,      \* the keys of assetList not yet gone through, in order
  txInputs,        \* tx.inputs, each the position in utxos of the output it spends
  totalInputs,     \* totalInputs.amount
  selCall,         \* the arguments of the last findBestMatchByNeededAssets call
  selRes,          \* what that call gave addInputsForSendTransaction
  issued,          \* the Asset whose identifier is derived
  idLog,           \* the getAssetId calls made on it: the values read and the result
  assetObj,        \* the Asset that payments are added to and that is encoded
  encodeLog,       \* the Asset.encode calls made on it: the Asset before, the result, the Asset after
  burnRes,         \* the last addBurn call made on it: the Asset before, the result, the Asset after
  buffer,          \* the bytes a consumer is made on for decodeBulk
  bufDec,          \* what decodeBulk gave on them, with the decode attempts it made
  sendStep,        \* addInputsForSendTransaction: the step the call is at
  sendRes,         \* addInputsForSendTransaction: what the call gave once it ended
  txOutputs,       \* tx.outputs
  assetData        \* the data the Asset of addInputsForSendTransaction was made from

flagsVars == <<flagsParams, flagsThis, flagsRes, flagsDec>>
paymentVars == <<codec, payment, encRes, decRes>>
bulkVars == <<paymentsArray, bulkRes, bulkDec>>
skipVars == <<payments, skipRes, inputRes>>
recordVars == <<record, budget, recRes, recDec, assetRes>>
idVars == <<issued, idLog>>
assetVars == <<assetObj, encodeLog, burnRes>>
decodeVars == <<buffer, bufDec>>
selectVars == <<walletUtxos, neededAssets, assetOrder, txInputs, totalInputs, selCall, selRes>>
sendVars == <<sendStep, sendRes, txOutputs, assetData>>

vars == <<pc, flagsVars, paymentVars, bulkVars, skipVars, recordVars, selectVars, idVars, assetVars,
          decodeVars, sendVars>>

-----------------------------------------------------------------------------
(* Values, calls and JavaScript idiom *)

NoResult == [state |-> "none"]
Returned(v) == [state |-> "returned", value |-> v]
Threw(e) == [state |-> "threw", error |-> e]
IsReturned(r) == r.state = "returned"
IsThrew(r) == r.state = "threw"

Has(o, k) == k \in DOMAIN o
\* o.k used as a condition, for a boolean property and for a numeric one
TruthyB(o, k) == Has(o, k) /\ o[k] = TRUE
TruthyN(o, k) == Has(o, k) /\ o[k] # 0
\* the properties of o among keys, as a new object
Pick(o, keys) == [k \in (DOMAIN o) \cap keys |-> o[k]]
\* o with property k set to v
With(o, k, v) == [x \in (DOMAIN o) \cup {k} |-> IF x = k THEN v ELSE o[x]]
\* o with property k deleted
Without(o, k) == [x \in (DOMAIN o) \ {k} |-> o[x]]

RECURSIVE Pow(_, _)
Pow(b, e) == IF e = 0 THEN 1 ELSE b * Pow(b, e - 1)

RECURSIVE BitAnd(_, _)
BitAnd(a, b) ==
  IF a = 0 \/ b = 0 THEN 0
  ELSE (a % 2) * (b % 2) + 2 * BitAnd(a \div 2, b \div 2)

RECURSIVE BitOr(_, _)
BitOr(a, b) ==
  IF a = 0 THEN b
  ELSE IF b = 0 THEN a
  ELSE (IF a % 2 = 1 \/ b % 2 = 1 THEN 1 ELSE 0) + 2 * BitOr(a \div 2, b \div 2)

ShiftLeft(a, n) == a * Pow(2, n)
ShiftRight(a, n) == a \div Pow(2, n)

\* n.toString(radix) of a non-negative integer, as its digits
RECURSIVE Digits(_, _)
Digits(n, radix) ==
  IF n < radix THEN <<n>> ELSE Append(Digits(n \div radix, radix), n % radix)

\* new Buffer(hex, 'hex'): one byte per two hex digits
HexToBuffer(hex) == [i \in 1 .. (Len(hex) \div 2) |-> 16 * hex[2 * i - 1] + hex[2 * i]]

\* parseInt(buf.toString('hex'), 16): the big-endian value of the bytes
RECURSIVE BufferToInt(_)
BufferToInt(buf) ==
  IF buf = <<>> THEN 0
  ELSE 256 * BufferToInt(SubSeq(buf, 1, Len(buf) - 1)) + buf[Len(buf)]

\* assetUtils.padLeadingZeros(hex, byteSize); the hex strings of the model
\* never exceed byteSize * 2 digits
RECURSIVE padLeadingZeros(_, _)
padLeadingZeros(hex, byteSize) ==
  IF Len(hex) >= byteSize * 2 THEN hex ELSE padLeadingZeros(<<0>> \o hex, byteSize)

\* assetUtils.consumer: consume(len) is buff.slice(curr, curr += len); the
\* cursor moves by len whether or not the bytes are there
Slice(buff, curr, len) ==
  IF curr >= Len(buff) THEN <<>>
  ELSE SubSeq(buff, curr + 1, IF curr + len > Len(buff) THEN Len(buff) ELSE curr + len)

-----------------------------------------------------------------------------
(* IssueFlagsEncoder *)

aggregationPolicies == <<"aggregatable", "hybrid", "dispersed">>

\* aggregationPolicies.indexOf(name), 0-based, -1 when absent
indexOf(name) ==
  IF \E i \in 1 .. Len(aggregationPolicies) : aggregationPolicies[i] = name
  THEN (CHOOSE i \in 1 .. Len(aggregationPolicies) : aggregationPolicies[i] = name) - 1
  ELSE -1

\* new IssueFlagsEncoder(params)
IssueFlagsEncoder(params) ==
  With(Pick(params, {"divisibility", "lockStatus"}), "aggregationPolicy",
       IF Has(params, "aggregationPolicy") /\ params.aggregationPolicy # ""
       THEN params.aggregationPolicy ELSE aggregationPolicies[1])

\* the flags byte with the policy index shifted into the two padding bits
FlagsByteValueNoPadding(this) ==
  LET policy == indexOf(this.aggregationPolicy)
      lockStatusFlag == IF TruthyB(this, "lockStatus") THEN 1 ELSE 0
      r1 == ShiftLeft(IF Has(this, "divisibility") THEN this.divisibility ELSE 0, 1)
      r2 == BitOr(r1, lockStatusFlag)
      r3 == ShiftLeft(r2, 2)
  IN BitOr(r3, policy)

\* IssueFlagsEncoder.prototype.encode, on instance this: the value of the
\* byte, the result, and this after the call (the policy name is overwritten
\* by its index before the index is tested)
FlagsByteValue(this) ==
  LET policy == indexOf(this.aggregationPolicy)
      lockStatusFlag == IF TruthyB(this, "lockStatus") THEN 1 ELSE 0
      r1 == ShiftLeft(IF Has(this, "divisibility") THEN this.divisibility ELSE 0, 1)
      r2 == BitOr(r1, lockStatusFlag)
      r3 == ShiftLeft(r2, 2)
      r4 == BitOr(r3, policy)
  IN ShiftLeft(r4, 2)

IssueFlagsEncode(this) ==
  IF Has(this, "divisibility") /\ (this.divisibility < 0 \/ this.divisibility > 7)
  THEN Threw("Divisibility not in range")
  ELSE IF indexOf(this.aggregationPolicy) < 0
  THEN Threw("Invalid aggregation policy")
  ELSE Returned(HexToBuffer(padLeadingZeros(Digits(FlagsByteValue(this), 16), 1)))

IssueFlagsEncodeThis(this) ==
  IF Has(this, "divisibility") /\ (this.divisibility < 0 \/ this.divisibility > 7)
  THEN this
  ELSE With(this, "aggregationPolicy", indexOf(this.aggregationPolicy))

\* IssueFlagsEncoder.prototype.decode, on the byte consume(1)[0]
IssueFlagsDecode(byte) ==
  LET n1 == ShiftRight(byte, 2)
      policyIndex == BitAnd(n1, 3)
      n2 == ShiftRight(n1, 2)
      lockStatus == BitAnd(n2, 1) # 0
      n3 == ShiftRight(n2, 1)
      divisibility == BitAnd(n3, 7)
      params == [divisibility |-> divisibility, lockStatus |-> lockStatus]
  IN IssueFlagsEncoder(
       IF policyIndex < Len(aggregationPolicies)
       THEN With(params, "aggregationPolicy", aggregationPolicies[policyIndex + 1])
       ELSE params)

-----------------------------------------------------------------------------
(* sffc-encoder, the amount codec: one byte for 0..31, else a flag in the   *)
(* top three bits of the first byte (001 to 110 for 2 to 7 bytes), a        *)
(* mantissa and a decimal exponent.  The model encodes amounts of up to 4   *)
(* bytes; a decoded amount past TLC's integers is AmountTooLarge.           *)

AmountTooLarge == 2147483647

sffcMantissaBits(byteSize) == 8 * byteSize - 7

RECURSIVE sffcExponent(_, _)
sffcExponent(n, e) ==
  IF n % 10 = 0 /\ e < 15 THEN sffcExponent(n \div 10, e + 1) ELSE e

RECURSIVE sffcSize(_, _)
sffcSize(mantissa, byteSize) ==
  IF mantissa < Pow(2, sffcMantissaBits(byteSize)) THEN byteSize
  ELSE sffcSize(mantissa, byteSize + 1)

\* sffc.encode(number), number > 0
sffcEncode(number) ==
  IF number < 32 THEN <<number>>
  ELSE LET e == sffcExponent(number, 0)
           mantissa == number \div Pow(10, e)
           size == sffcSize(mantissa, 2)
           value == ShiftLeft(size - 1, 8 * size - 3) + ShiftLeft(mantissa, 4) + e
       IN HexToBuffer(padLeadingZeros(Digits(value, 16), size))

\* mantissa * 10^exponent within TLC's integers
sffcValue(mantissa, exponent) ==
  IF mantissa = 0 THEN 0
  ELSE IF exponent > 9 THEN AmountTooLarge
  ELSE IF mantissa > AmountTooLarge \div Pow(10, exponent) THEN AmountTooLarge
  ELSE mantissa * Pow(10, exponent)

\* sffc.decode(consume) at cursor curr of buff: [ok, amount, curr]; it fails
\* on a missing leading byte and on a truncated amount
sffcDecode(buff, curr) ==
  LET flagByte == Slice(buff, curr, 1)
      flag == IF flagByte = <<>> THEN 0 ELSE ShiftRight(flagByte[1], 5)
      size == IF flag = 7 THEN 7 ELSE flag + 1
      bytes == Slice(buff, curr, size)
      value == BufferToInt(bytes) - ShiftLeft(size - 1, 8 * size - 3)
  IN IF flagByte = <<>> \/ Len(bytes) < size
     THEN [ok |-> FALSE, curr |-> curr + size]
     ELSE IF size = 1 THEN [ok |-> TRUE, amount |-> flagByte[1], curr |-> curr + 1]
     ELSE IF size > 4 THEN [ok |-> TRUE, amount |-> AmountTooLarge, curr |-> curr + size]
     ELSE [ok |-> TRUE, amount |-> sffcValue(ShiftRight(value, 4), value % 16),
           curr |-> curr + size]

-----------------------------------------------------------------------------
(* PaymentEncoder *)

flagMask == 224
skipFlag == 128
rangeFlag == 64
percentFlag == 32

\* new PaymentEncoder(params); without params the instance has no property
PaymentEncoder(params) ==
  [k \in {"skip", "range", "percent"} \cup ((DOMAIN params) \cap {"output", "amount"}) |->
     IF k \in {"skip", "range", "percent"} THEN TruthyB(params, k) ELSE params[k]]

\* the bytes PaymentEncoder.prototype.encode builds once its checks passed
PaymentBytes(this) ==
  LET outputString == padLeadingZeros(Digits(this.output, 16), (IF this.range THEN 1 ELSE 0) + 1)
      buf == HexToBuffer(outputString)
      b1 == IF this.skip THEN BitOr(buf[1], skipFlag) ELSE buf[1]
      b2 == IF this.range THEN BitOr(b1, rangeFlag) ELSE b1
      b3 == IF this.percent THEN BitOr(b2, percentFlag) ELSE b2
  IN <<b3>> \o Tail(buf) \o sffcEncode(this.amount)

\* the bound with one bit too many allowed for a range output
OutputOutOfBoundsWide(this) ==
  LET outputBinaryLength == Len(Digits(this.output, 2))
  IN (~this.range /\ outputBinaryLength > 5) \/ (this.range /\ outputBinaryLength > 14)

\* the bound of the output reference: 5 bits, or 13 with range
OutputOutOfBounds(this) ==
  LET outputBinaryLength == Len(Digits(this.output, 2))
  IN (~this.range /\ outputBinaryLength > 5) \/ (this.range /\ outputBinaryLength > 13)

\* PaymentEncoder.prototype.encode, on instance this
PaymentEncode(this) ==
  IF ~TruthyN(this, "amount") THEN Threw("Needs an amount value")
  ELSE IF ~Has(this, "output") THEN Threw("TypeError")
  ELSE IF this.output < 0 THEN Threw("Output Can't be negative")
  ELSE IF OutputOutOfBounds(this) THEN Threw("Output value is out of bounds")
  ELSE Returned(PaymentBytes(this))

\* PaymentEncoder.prototype.decode(consume) at cursor curr of buff:
\* [ok, payment, curr]; a flags byte of 0 fails the checkState as an absent one
PaymentDecode(buff, curr) ==
  LET first == Slice(buff, curr, 1)
      flagsBuffer == IF first = <<>> THEN 0 ELSE first[1]
      flags == BitAnd(flagsBuffer, flagMask)
      skip == BitAnd(flags, skipFlag) # 0
      range == BitAnd(flags, rangeFlag) # 0
      percent == BitAnd(flags, percentFlag) # 0
      low == <<flagsBuffer - flags>>
      output == IF range THEN low \o Slice(buff, curr + 1, 1) ELSE low
      amount == sffcDecode(buff, IF range THEN curr + 2 ELSE curr + 1)
  IN IF flagsBuffer = 0 THEN [ok |-> FALSE, curr |-> curr + 1]
     ELSE IF ~amount.ok THEN [ok |-> FALSE, curr |-> amount.curr]
     ELSE [ok |-> TRUE, curr |-> amount.curr,
           payment |-> PaymentEncoder([skip |-> skip, range |-> range, percent |-> percent,
                                       output |-> BufferToInt(output), amount |-> amount.amount])]

-----------------------------------------------------------------------------
(* BurnPaymentEncoder *)

BURN_OUTPUT == 31

\* new BurnPaymentEncoder(params), params given
BurnPaymentEncoder(params) == Pick(params, {"amount", "output", "range", "burn"})

\* the instance handed on when the reserved output is not substituted for a burn
BurnPaymentObjectNoSentinel(this) ==
  IF TruthyB(this, "burn")
  THEN With(With(PaymentEncoder(this), "output", 0), "range", FALSE)
  ELSE this

\* the PaymentEncoder instance BurnPaymentEncoder.prototype.encode hands on
BurnPaymentObject(this) ==
  IF TruthyB(this, "burn")
  THEN With(With(PaymentEncoder(this), "output", BURN_OUTPUT), "range", FALSE)
  ELSE this

\* BurnPaymentEncoder.prototype.encode, on instance this
BurnPaymentEncode(this) ==
  IF ~Has(this, "output") /\ ~TruthyB(this, "burn")
  THEN Threw("Needs output value or burn flag")
  ELSE IF Has(this, "output") /\ TruthyB(this, "burn")
  THEN Threw("Received both burn and output")
  ELSE IF Has(this, "range") /\ TruthyB(this, "burn")
  THEN Threw("Received both burn and range")
  ELSE IF ~TruthyB(this, "range") /\ Has(this, "output") /\ this.output = BURN_OUTPUT
  THEN Threw("Received range and output values reserved to represent burn")
  ELSE PaymentEncode(PaymentEncoder(BurnPaymentObject(this)))

\* BurnPaymentEncoder.prototype.decode(consume): [ok, payment, curr]
BurnPaymentDecode(buff, curr) ==
  LET ans == PaymentDecode(buff, curr)
      burn == ~ans.payment.range /\ ans.payment.output = BURN_OUTPUT
  IN IF ~ans.ok THEN ans
     ELSE [ok |-> TRUE, curr |-> ans.curr,
           payment |-> BurnPaymentEncoder(
             IF burn THEN Without(Without(With(ans.payment, "burn", TRUE), "output"), "range")
             ELSE ans.payment)]

-----------------------------------------------------------------------------
(* encodeBulk and decodeBulk of the two payment codecs *)

\* PaymentEncoder.prototype.encodeBulk: the first throw ends it
RECURSIVE encodeBulk(_)
encodeBulk(array) ==
  IF array = <<>> THEN Returned(<<>>)
  ELSE LET rest == encodeBulk(SubSeq(array, 1, Len(array) - 1))
           paymentCode == PaymentEncode(PaymentEncoder(array[Len(array)]))
       IN IF IsThrew(rest) THEN rest
          ELSE IF IsThrew(paymentCode) THEN paymentCode
          ELSE Returned(rest.value \o paymentCode.value)

\* BurnPaymentEncoder.prototype.encodeBulk
RECURSIVE burnEncodeBulk(_)
burnEncodeBulk(array) ==
  IF array = <<>> THEN Returned(<<>>)
  ELSE LET rest == burnEncodeBulk(SubSeq(array, 1, Len(array) - 1))
           paymentCode == BurnPaymentEncode(BurnPaymentEncoder(array[Len(array)]))
       IN IF IsThrew(rest) THEN rest
          ELSE IF IsThrew(paymentCode) THEN paymentCode
          ELSE Returned(rest.value \o paymentCode.value)

\* one call of decode on the consumer: where it started, whether it returned,
\* where it left the consumer
Attempt(curr, decoded) == [from |-> curr, ok |-> decoded.ok, to |-> decoded.curr]

\* the consumer and the array after one more call of decode: the payment
\* pushed if decode returned, the attempt recorded
AfterDecode(state, decoded) ==
  [paymentsArray |-> IF decoded.ok THEN Append(state.paymentsArray, decoded.payment)
                     ELSE state.paymentsArray,
   curr |-> decoded.curr,
   attempts |-> Append(state.attempts, Attempt(state.curr, decoded))]

\* a loop whose catch returns at the second decode of the turn that throws,
\* not at the first
RECURSIVE decodeBulkLoopRetrying(_, _)
decodeBulkLoopRetrying(buff, state) ==
  LET first == AfterDecode(state, PaymentDecode(buff, state.curr))
      second == AfterDecode(first, PaymentDecode(buff, first.curr))
  IN IF Len(first.paymentsArray) > Len(state.paymentsArray)
     THEN decodeBulkLoopRetrying(buff, decodeBulkLoopRetrying(buff, first))
     ELSE IF Len(second.paymentsArray) > Len(first.paymentsArray)
     THEN decodeBulkLoopRetrying(buff, decodeBulkLoopRetrying(buff, second))
     ELSE second

decodeBulkRetrying(buff, curr, array) ==
  decodeBulkLoopRetrying(buff, [paymentsArray |-> array, curr |-> curr, attempts |-> <<>>])

\* the loop of PaymentEncoder.prototype.decodeBulk on the consumer and the
\* array in state: after a decode that returned, the call of decodeBulk inside
\* the try, and after that call the next turn of the loop; the catch returns
RECURSIVE decodeBulkLoop(_, _)
decodeBulkLoop(buff, state) ==
  LET next == AfterDecode(state, PaymentDecode(buff, state.curr))
  IN IF Len(next.paymentsArray) > Len(state.paymentsArray)
     THEN decodeBulkLoop(buff, decodeBulkLoop(buff, next))
     ELSE next

\* PaymentEncoder.prototype.decodeBulk(consume, paymentsArray), consume at
\* curr: the array, where the consumer is left, and the calls of decode in the
\* order they were made
decodeBulk(buff, curr, array) ==
  decodeBulkLoop(buff, [paymentsArray |-> array, curr |-> curr, attempts |-> <<>>])

\* BurnPaymentEncoder.prototype.decodeBulk(consume, paymentsArray): the
\* constructor called without params throws a TypeError inside the try, before
\* any byte is consumed, and the catch returns the array
burnDecodeBulk(buff, curr, array) ==
  [paymentsArray |-> array, curr |-> curr,
   attempts |-> <<Attempt(curr, [ok |-> FALSE, curr |-> curr])>>]

-----------------------------------------------------------------------------
(* The Asset orchestrator's payment transform *)

\* a.input - b.input of the comparator; with an input missing the difference
\* is NaN, which sort takes as 0
InputDifference(a, b) ==
  IF Has(a, "input") /\ Has(b, "input") THEN a.input - b.input ELSE 0

\* result.sort(function (a, b) { return a.input - b.input }): x goes after the
\* elements that do not come after it
RECURSIVE SortInsert(_, _)
SortInsert(sorted, x) ==
  IF sorted = <<>> THEN <<x>>
  ELSE IF InputDifference(sorted[Len(sorted)], x) <= 0 THEN Append(sorted, x)
  ELSE Append(SortInsert(SubSeq(sorted, 1, Len(sorted) - 1), x), sorted[Len(sorted)])

RECURSIVE SortByInput(_)
SortByInput(list) ==
  IF list = <<>> THEN <<>>
  ELSE SortInsert(SortByInput(SubSeq(list, 1, Len(list) - 1)), list[Len(list)])

\* SkipFlag set on every element that has a successor
SkipFlagAlways(result, i) == i + 1 <= Len(result)

\* SkipFlag set also when the successor has the same input
SkipFlagNotLess(result, i) ==
  /\ i + 1 <= Len(result)
  /\ Has(result[i + 1], "input") /\ Has(result[i], "input")
  /\ result[i + 1].input >= result[i].input

\* the skip flag paymentsInputToSkip gives element i of the sorted result
SkipFlag(result, i) ==
  /\ i + 1 <= Len(result)
  /\ Has(result[i + 1], "input") /\ Has(result[i], "input")
  /\ result[i + 1].input > result[i].input

\* paymentsInputToSkip(payments)
paymentsInputToSkip(list) ==
  LET result == SortByInput(list)
  IN [i \in 1 .. Len(result) |-> With(Without(result[i], "input"), "skip", SkipFlag(result, i))]

\* the value of the running input when element i is reached
RECURSIVE InputAt(_, _)
InputAt(list, i) ==
  IF i = 1 THEN 0
  ELSE InputAt(list, i - 1) + (IF TruthyB(list[i - 1], "skip") THEN 1 ELSE 0)

\* paymentsSkipToInput(payments)
paymentsSkipToInput(list) ==
  [i \in 1 .. Len(list) |->
     LET paymentDecoded == IF TruthyB(list[i], "burn") THEN [burn |-> TRUE]
                           ELSE Pick(list[i], {"range", "output"})
         withInput == With(paymentDecoded, "input", InputAt(list, i))
         withPercent == IF Has(list[i], "percent")
                        THEN With(withInput, "percent", list[i].percent) ELSE withInput
     IN IF Has(list[i], "amount") THEN With(withPercent, "amount", list[i].amount)
        ELSE withPercent]

-----------------------------------------------------------------------------
(* IssuanceEncoder *)

\* new IssuanceEncoder(params), params given
IssuanceEncoder(params) ==
  Pick(params, {"amount", "lockStatus", "divisibility", "aggregationPolicy", "protocol",
                "version", "payments", "torrentHash", "sha2", "noRules"})

\* issueHeader: protocol on two bytes, version on one
Header(this) ==
  HexToBuffer(padLeadingZeros(Digits(this.protocol, 16), 2))
    \o <<IF Has(this, "version") THEN this.version ELSE 0>>

\* FitHashes embedding both hashes whatever the byte size
FitHashesUnbounded(this, OP_CODES, both, torrentOnly, neither, base, byteSize) ==
  [opcode |-> OP_CODES[both + 1], hash |-> this.torrentHash \o this.sha2, leftover |-> <<>>]

\* FitHashes leaving a hash out when it fills the byte size exactly
FitHashesStrict(this, OP_CODES, both, torrentOnly, neither, base, byteSize) ==
  LET withTorrent == base + Len(this.torrentHash)
      withBoth == withTorrent + Len(this.sha2)
  IN IF withTorrent >= byteSize
     THEN [opcode |-> OP_CODES[neither + 1], hash |-> <<>>,
           leftover |-> <<this.torrentHash, this.sha2>>]
     ELSE IF withBoth >= byteSize
     THEN [opcode |-> OP_CODES[torrentOnly + 1], hash |-> this.torrentHash,
           leftover |-> <<this.sha2>>]
     ELSE [opcode |-> OP_CODES[both + 1], hash |-> this.torrentHash \o this.sha2,
           leftover |-> <<>>]

\* FitHashes embedding the torrent hash only while the sha2 hash does not fit
FitHashesTorrentAlone(this, OP_CODES, both, torrentOnly, neither, base, byteSize) ==
  LET withTorrent == base + Len(this.torrentHash)
      withBoth == withTorrent + Len(this.sha2)
  IN IF withTorrent <= byteSize /\ withBoth > byteSize
     THEN [opcode |-> OP_CODES[torrentOnly + 1], hash |-> this.torrentHash,
           leftover |-> <<this.sha2>>]
     ELSE [opcode |-> OP_CODES[neither + 1], hash |-> <<>>,
           leftover |-> <<this.torrentHash, this.sha2>>]

\* the hashes embedded, the opcode and the leftover, once the base size fits:
\* OP_CODES is the codec's table (0-based), base the size without any hash
FitHashes(this, OP_CODES, both, torrentOnly, neither, base, byteSize) ==
  LET withTorrent == base + Len(this.torrentHash)
      withBoth == withTorrent + Len(this.sha2)
  IN IF withTorrent > byteSize
     THEN [opcode |-> OP_CODES[neither + 1], hash |-> <<>>,
           leftover |-> <<this.torrentHash, this.sha2>>]
     ELSE IF withBoth > byteSize
     THEN [opcode |-> OP_CODES[torrentOnly + 1], hash |-> this.torrentHash,
           leftover |-> <<this.sha2>>]
     ELSE [opcode |-> OP_CODES[both + 1], hash |-> this.torrentHash \o this.sha2,
           leftover |-> <<>>]

ISSUANCE_OP_CODES == <<0, 1, 2, 3, 4, 5, 6>>

\* IssuanceEncoder.prototype.encode(byteSize), on instance this
IssuanceEncode(this, byteSize) ==
  IF ~TruthyN(this, "amount") THEN Threw("Amount must be set")
  ELSE IF ~TruthyB(this, "lockStatus") THEN Threw("lockStatus must be set")
  ELSE IF ~(Has(this, "aggregationPolicy") /\ this.aggregationPolicy # "")
  THEN Threw("aggregationPolicy must be set")
  ELSE IF ~TruthyN(this, "protocol") THEN Threw("protocol must be set")
  ELSE IF ~TruthyN(this, "version") THEN Threw("version must be set")
  ELSE
    LET issueHeader == Header(this)
        amount == sffcEncode(this.amount)
        paymentsCode == IF Has(this, "payments") THEN encodeBulk(this.payments) ELSE Returned(<<>>)
        issueFlagsByte == IssueFlagsEncode(IssueFlagsEncoder(this))
        issueTail == amount \o paymentsCode.value \o issueFlagsByte.value
        issueByteSize == Len(issueHeader) + Len(issueTail) + 1
        fit == FitHashes(this, ISSUANCE_OP_CODES, 1, 2, 3, issueByteSize, byteSize)
    IN IF IsThrew(paymentsCode) THEN paymentsCode
       ELSE IF IsThrew(issueFlagsByte) THEN issueFlagsByte
       ELSE IF issueByteSize > byteSize
       THEN Threw("Data code is bigger then the allowed byte size")
       ELSE IF ~Has(this, "sha2")
       THEN IF Has(this, "torrentHash")
            THEN IF issueByteSize + Len(this.torrentHash) > byteSize
                 THEN Threw("Can't fit Torrent Hash in byte size")
                 ELSE Returned([codeBuffer |-> issueHeader \o <<ISSUANCE_OP_CODES[4 + 1]>>
                                                 \o this.torrentHash \o issueTail,
                                leftover |-> <<>>])
            ELSE Returned([codeBuffer |-> issueHeader
                             \o <<IF TruthyB(this, "noRules") THEN ISSUANCE_OP_CODES[5 + 1]
                                  ELSE ISSUANCE_OP_CODES[6 + 1]>> \o issueTail,
                           leftover |-> <<>>])
       ELSE IF ~Has(this, "torrentHash") THEN Threw("Torrent Hash is missing")
       ELSE Returned([codeBuffer |-> issueHeader \o <<fit.opcode>> \o fit.hash \o issueTail,
                      leftover |-> fit.leftover])

\* assetUtils.decodeAmountByVersion: [ok, amount, curr]; the amount of a
\* version 1 record is divided by 10^divisibility, so an amount is the
\* fraction num / den
decodeAmountByVersion(version, buff, curr, divisibility) ==
  LET decodedAmount == sffcDecode(buff, curr)
  IN IF ~decodedAmount.ok THEN decodedAmount
     ELSE [ok |-> TRUE, curr |-> decodedAmount.curr,
           amount |-> [num |-> decodedAmount.amount,
                       den |-> IF version = 1 THEN Pow(10, divisibility) ELSE 1]]

\* the hash fields a decoder reads after the opcode: [data, curr]
ReadHashes(buff, curr, fields) ==
  IF fields = <<"torrentHash", "sha2">>
  THEN [data |-> [torrentHash |-> Slice(buff, curr, 20), sha2 |-> Slice(buff, curr + 20, 32)],
        curr |-> curr + 52]
  ELSE IF fields = <<"torrentHash">>
  THEN [data |-> [torrentHash |-> Slice(buff, curr, 20)], curr |-> curr + 20]
  ELSE [data |-> <<>>, curr |-> curr]

\* the multiSig entries a decoder pushes for the hashes carried outside
MultiSigSha2 == <<[index |-> 1, hashType |-> "sha2"]>>
MultiSigBoth == <<[index |-> 1, hashType |-> "sha2"], [index |-> 2, hashType |-> "torrentHash"]>>

\* one branch of a decoder's opcode dispatch: the hash fields it consumes, the
\* multiSig entries it pushes and the properties it sets besides
Layout(fields, multiSig, set) ==
  [known |-> TRUE, fields |-> fields, multiSig |-> multiSig, set |-> set]

\* an opcode dispatch whose branch for opcode 2 consumes no hash
IssuanceLayoutNoHashRead(opcode) ==
  IF opcode = ISSUANCE_OP_CODES[1 + 1] THEN Layout(<<"torrentHash", "sha2">>, <<>>, <<>>)
  ELSE IF opcode = ISSUANCE_OP_CODES[2 + 1] THEN Layout(<<>>, MultiSigSha2, <<>>)
  ELSE IF opcode = ISSUANCE_OP_CODES[3 + 1] THEN Layout(<<>>, MultiSigBoth, <<>>)
  ELSE IF opcode = ISSUANCE_OP_CODES[4 + 1] THEN Layout(<<"torrentHash">>, <<>>, <<>>)
  ELSE IF opcode = ISSUANCE_OP_CODES[5 + 1] THEN Layout(<<>>, <<>>, [noRules |-> TRUE])
  ELSE IF opcode = ISSUANCE_OP_CODES[6 + 1] THEN Layout(<<>>, <<>>, [noRules |-> FALSE])
  ELSE [known |-> FALSE]

\* the opcode dispatch of IssuanceEncoder.prototype.decode
IssuanceLayout(opcode) ==
  IF opcode = ISSUANCE_OP_CODES[1 + 1] THEN Layout(<<"torrentHash", "sha2">>, <<>>, <<>>)
  ELSE IF opcode = ISSUANCE_OP_CODES[2 + 1] THEN Layout(<<"torrentHash">>, MultiSigSha2, <<>>)
  ELSE IF opcode = ISSUANCE_OP_CODES[3 + 1] THEN Layout(<<>>, MultiSigBoth, <<>>)
  ELSE IF opcode = ISSUANCE_OP_CODES[4 + 1] THEN Layout(<<"torrentHash">>, <<>>, <<>>)
  ELSE IF opcode = ISSUANCE_OP_CODES[5 + 1] THEN Layout(<<>>, <<>>, [noRules |-> TRUE])
  ELSE IF opcode = ISSUANCE_OP_CODES[6 + 1] THEN Layout(<<>>, <<>>, [noRules |-> FALSE])
  ELSE [known |-> FALSE]

\* the properties of a and those of b
Merge(a, b) == [k \in (DOMAIN a) \cup (DOMAIN b) |-> IF k \in DOMAIN b THEN b[k] ELSE a[k]]

\* IssuanceEncoder.prototype.decode(op_code_buffer)
IssuanceDecode(op_code_buffer) ==
  LET byteSize == Len(op_code_buffer)
      issueTail == IssueFlagsDecode(op_code_buffer[byteSize])
      buff == SubSeq(op_code_buffer, 1, byteSize - 1)
      protocol == BufferToInt(Slice(buff, 0, 2))
      version == BufferToInt(Slice(buff, 2, 1))
      opcode == Slice(buff, 3, 1)
      layout == IssuanceLayout(opcode[1])
      hashes == ReadHashes(buff, 4, layout.fields)
      amount == decodeAmountByVersion(version, buff, hashes.curr, issueTail.divisibility)
      paymentsDecoded == decodeBulk(buff, amount.curr, <<>>).paymentsArray
  IN IF opcode = <<>> \/ ~layout.known THEN Threw("Unrecognized Code")
     ELSE IF ~amount.ok THEN Threw("sffc decode")
     ELSE Returned(IssuanceEncoder(
            Merge(Merge(Merge(issueTail, hashes.data), layout.set),
                  [protocol |-> protocol, version |-> version, amount |-> amount.amount,
                   payments |-> paymentsDecoded])))

-----------------------------------------------------------------------------
(* TransferEncoder *)

TYPE_MASK == 240
TRANSFER_MASK == 16
BURN_MASK == 32
TRANSFER_OP_CODES == <<16, 17, 18, 19, 20, 21>>
BURN_OP_CODES == <<32, 33, 34, 35, 36, 37>>

\* new TransferEncoder(params), params given
TransferEncoder(params) ==
  Pick(params, {"payments", "type", "protocol", "version", "sha2", "torrentHash",
                "noRules", "output"})

\* TransferEncoder.prototype.encode(byteSize), on instance this
TransferEncode(this, byteSize) ==
  IF ~Has(this, "payments") THEN Threw("Missing Data")
  ELSE IF ~Has(this, "protocol") THEN Threw("TypeError")
  ELSE
    LET isBurn == Has(this, "type") /\ this.type = "burn"
        OP_CODES == IF isBurn THEN BURN_OP_CODES ELSE TRANSFER_OP_CODES
        transferHeader == Header(this)
        paymentsCode == IF isBurn THEN burnEncodeBulk(this.payments) ELSE encodeBulk(this.payments)
        issueByteSize == Len(transferHeader) + Len(paymentsCode.value) + 1
        fit == FitHashes(this, OP_CODES, 0, 1, 2, issueByteSize, byteSize)
    IN IF IsThrew(paymentsCode) THEN paymentsCode
       ELSE IF issueByteSize > byteSize
       THEN Threw("Data code is bigger then the allowed byte size")
       ELSE IF ~Has(this, "sha2")
       THEN IF Has(this, "torrentHash")
            THEN IF issueByteSize + Len(this.torrentHash) > byteSize
                 THEN Threw("Can't fit Torrent Hash in byte size")
                 ELSE Returned([codeBuffer |-> transferHeader
                                  \o <<IF TruthyB(this, "noRules") THEN OP_CODES[4 + 1]
                                       ELSE OP_CODES[3 + 1]>>
                                  \o this.torrentHash \o paymentsCode.value,
                                leftover |-> <<>>])
            ELSE Returned([codeBuffer |-> transferHeader \o <<OP_CODES[5 + 1]>> \o paymentsCode.value,
                           leftover |-> <<>>])
       ELSE IF ~Has(this, "torrentHash") THEN Threw("Torrent Hash is missing")
       ELSE Returned([codeBuffer |-> transferHeader \o <<fit.opcode>> \o fit.hash \o paymentsCode.value,
                      leftover |-> fit.leftover])

\* the opcode dispatch of TransferEncoder.prototype.decode
TransferLayout(opcode) ==
  LET is(i) == opcode = TRANSFER_OP_CODES[i + 1] \/ opcode = BURN_OP_CODES[i + 1]
  IN IF is(0) THEN Layout(<<"torrentHash", "sha2">>, <<>>, <<>>)
     ELSE IF is(1) THEN Layout(<<"torrentHash">>, MultiSigSha2, <<>>)
     ELSE IF is(2) THEN Layout(<<>>, MultiSigBoth, <<>>)
     ELSE IF is(3) THEN Layout(<<"torrentHash">>, <<>>, [noRules |-> FALSE])
     ELSE IF is(4) THEN Layout(<<"torrentHash">>, <<>>, [noRules |-> TRUE])
     ELSE IF is(5) THEN Layout(<<>>, <<>>, <<>>)
     ELSE [known |-> FALSE]

\* TransferEncoder.prototype.decode(op_code_buffer); for a burn opcode the
\* payment decoder is made by new BurnPaymentEncoder(), which throws a
\* TypeError on its missing params
TransferDecode(op_code_buffer) ==
  LET buff == op_code_buffer
      protocol == BufferToInt(Slice(buff, 0, 2))
      version == BufferToInt(Slice(buff, 2, 1))
      opcode == Slice(buff, 3, 1)
      family == IF opcode = <<>> THEN 0 ELSE BitAnd(opcode[1], TYPE_MASK)
      layout == TransferLayout(opcode[1])
      hashes == ReadHashes(buff, 4, layout.fields)
      paymentsDecoded == decodeBulk(buff, hashes.curr, <<>>).paymentsArray
  IN IF family # TRANSFER_MASK /\ family # BURN_MASK THEN Threw("Unrecognized Code")
     ELSE IF ~layout.known THEN Threw("Unrecognized Code")
     ELSE IF family = BURN_MASK THEN Threw("TypeError")
     ELSE Returned(TransferEncoder(
            Merge(Merge(hashes.data, layout.set),
                  [protocol |-> protocol, version |-> version, payments |-> paymentsDecoded])))

-----------------------------------------------------------------------------
(* Asset *)

MIN_FEE == 1000
DA_TX_VERSION == 2
ASSET_IDENTIFIER == 17473
MAXBYTESIZE == 80

\* encodingLookup[opcode].type
LookupType(opcode) ==
  IF opcode \in 0 .. 15 THEN "issuance"
  ELSE IF opcode \in 16 .. 31 THEN "transfer"
  ELSE IF opcode \in 32 .. 47 THEN "burn"
  ELSE "undefined"

\* Asset.prototype.fromBuffer(data): the properties it sets, or the throw;
\* the decoder of a transfer or burn opcode is made by new TransferEncoder(),
\* which throws a TypeError on its missing params
fromBuffer(data) ==
  LET type == IF Len(data) < 4 THEN "undefined" ELSE LookupType(data[4])
      rawData == IssuanceDecode(data)
  IN IF type = "undefined" THEN Threw("TypeError")
     ELSE IF type # "issuance" THEN Threw("TypeError")
     ELSE IF IsThrew(rawData) THEN rawData
     ELSE Returned(Merge(
            [protocol |-> rawData.value.protocol, version |-> rawData.value.version,
             multiSig |-> <<>>, payments |-> paymentsSkipToInput(rawData.value.payments),
             type |-> type],
            Pick(rawData.value, {"lockStatus", "aggregationPolicy", "divisibility", "amount"})))

-----------------------------------------------------------------------------
(* Asset: selection of the outputs that fund the assets of a transfer.  An  *)
(* unspent output is [index, value, assets], assets being its entries       *)
(* [assetId, amount, aggregationPolicy]; tx.inputs is the sequence of the   *)
(* index of each output spent, and an input index is 0-based as in the      *)
(* code.                                                                    *)

RECURSIVE SumAmounts(_)
SumAmounts(entries) ==
  IF entries = <<>> THEN 0
  ELSE entries[1].amount + SumAmounts(SubSeq(entries, 2, Len(entries)))

\* Asset.prototype.getUtxoAssetAmount(utxo, assetId)
getUtxoAssetAmount(utxo, assetId) ==
  SumAmounts(SelectSeq(utxo.assets, LAMBDA asset : asset.assetId = assetId))

RECURSIVE Product(_, _)
Product(f, keys) ==
  IF keys = {} THEN 1
  ELSE LET k == CHOOSE x \in keys : TRUE IN f[k] * Product(f, keys \ {k})

\* the amounts by which the scores divide, zero left out
ScoreDivisors(assetList, key) ==
  [assetId \in (DOMAIN assetList) \ {key} |->
     IF assetList[assetId].amount = 0 THEN 1 ELSE assetList[assetId].amount]

RECURSIVE SumOver(_, _)
SumOver(f, keys) ==
  IF keys = {} THEN 0
  ELSE LET k == CHOOSE x \in keys : TRUE IN f[k] + SumOver(f, keys \ {k})

\* Score with no tier for the exact amount: 1000 for it as for a greater one
ScoreNoExactTier(utxo, assetList, key) ==
  LET others == (DOMAIN assetList) \ {key}
      divisors == ScoreDivisors(assetList, key)
      scale == Product(divisors, others)
      other == [assetId \in others |->
                  LET held == getUtxoAssetAmount(utxo, assetId)
                  IN IF held = assetList[assetId].amount THEN 100 * scale
                     ELSE IF held > assetList[assetId].amount THEN 10 * scale
                     ELSE held * (scale \div divisors[assetId])]
  IN IF getUtxoAssetAmount(utxo, key) < assetList[key].amount THEN 0
     ELSE 1000 * scale + SumOver(other, others)

\* utxo.score as findBestGreaterOrEqualAmountUtxo sets it, times the product
\* of the amounts of the other assets so that it stays an integer
Score(utxo, assetList, key) ==
  LET others == (DOMAIN assetList) \ {key}
      divisors == ScoreDivisors(assetList, key)
      scale == Product(divisors, others)
      assetAmount == getUtxoAssetAmount(utxo, key)
      other == [assetId \in others |->
                  LET held == getUtxoAssetAmount(utxo, assetId)
                  IN IF held = assetList[assetId].amount THEN 100 * scale
                     ELSE IF held > assetList[assetId].amount THEN 10 * scale
                     ELSE held * (scale \div divisors[assetId])]
  IN IF assetAmount < assetList[key].amount THEN 0
     ELSE (IF assetAmount = assetList[key].amount THEN 10000 ELSE 1000) * scale
            + SumOver(other, others)

\* _.maxBy(utxos, score): the position of the first output of the highest score
RECURSIVE MaxBy(_, _, _, _)
MaxBy(scores, i, best, bestScore) ==
  IF i > Len(scores) THEN best
  ELSE IF best = 0 \/ scores[i] > bestScore THEN MaxBy(scores, i + 1, i, scores[i])
  ELSE MaxBy(scores, i + 1, best, bestScore)

\* Asset.prototype.findBestGreaterOrEqualAmountUtxo(utxos, assetList, key):
\* the position in utxos of the output it returns, 0 when it returns false
findBestGreaterOrEqualAmountUtxo(utxos, assetList, key) ==
  LET foundLargerOrEqualAmountUtxo ==
        \E i \in 1 .. Len(utxos) : getUtxoAssetAmount(utxos[i], key) >= assetList[key].amount
      scores == [i \in 1 .. Len(utxos) |-> Score(utxos[i], assetList, key)]
  IN IF foundLargerOrEqualAmountUtxo THEN MaxBy(scores, 1, 0, 0) ELSE 0

\* _.sortBy(utxos, -amount of key): stable, the greatest amount first
RECURSIVE InsertByAmount(_, _, _)
InsertByAmount(sorted, utxo, key) ==
  IF sorted = <<>> THEN <<utxo>>
  ELSE IF getUtxoAssetAmount(sorted[Len(sorted)], key) >= getUtxoAssetAmount(utxo, key)
  THEN Append(sorted, utxo)
  ELSE Append(InsertByAmount(SubSeq(sorted, 1, Len(sorted) - 1), utxo, key), sorted[Len(sorted)])

RECURSIVE SortByAssetAmount(_, _)
SortByAssetAmount(utxos, key) ==
  IF utxos = <<>> THEN <<>>
  ELSE InsertByAmount(SortByAssetAmount(SubSeq(utxos, 1, Len(utxos) - 1), key),
                      utxos[Len(utxos)], key)

\* TakeUntilFound stopping one output short of the amount needed
RECURSIVE TakeUntilFoundShort(_, _, _, _)
TakeUntilFoundShort(sorted, key, needed, i) ==
  IF i >= Len(sorted) THEN sorted
  ELSE IF SumAmounts([j \in 1 .. i + 1 |-> [amount |-> getUtxoAssetAmount(sorted[j], key)]]) >= needed
  THEN SubSeq(sorted, 1, i)
  ELSE TakeUntilFoundShort(sorted, key, needed, i + 1)

\* the outputs pushed by utxosSortedByAssetAmount.some(...): the shortest
\* prefix whose amounts reach the amount needed, all of them when none does
RECURSIVE TakeUntilFound(_, _, _, _)
TakeUntilFound(sorted, key, needed, i) ==
  IF i >= Len(sorted) THEN sorted
  ELSE IF SumAmounts([j \in 1 .. i |-> [amount |-> getUtxoAssetAmount(sorted[j], key)]]) >= needed
  THEN SubSeq(sorted, 1, i)
  ELSE TakeUntilFound(sorted, key, needed, i + 1)

\* selectedUtxos of findBestMatchByNeededAssets
SelectedUtxos(utxos, assetList, key) ==
  LET bestGreaterOrEqualAmountUtxo == findBestGreaterOrEqualAmountUtxo(utxos, assetList, key)
      taken == TakeUntilFound(SortByAssetAmount(utxos, key), key, assetList[key].amount, 1)
      found == SumAmounts([j \in 1 .. Len(taken) |->
                             [amount |-> getUtxoAssetAmount(taken[j], key)]])
                 >= assetList[key].amount
  IN IF bestGreaterOrEqualAmountUtxo # 0 THEN <<utxos[bestGreaterOrEqualAmountUtxo]>>
     ELSE IF found THEN taken
     ELSE <<>>

\* the position in tx.inputs (0-based) of the input that spends utxo,
\* tx.inputs.length when none does
InputIndexOf(inputs, utxo) ==
  IF \E i \in 1 .. Len(inputs) : inputs[i] = utxo.index
  THEN (CHOOSE i \in 1 .. Len(inputs) :
          inputs[i] = utxo.index /\ \A j \in 1 .. i - 1 : inputs[j] # utxo.index) - 1
  ELSE Len(inputs)

\* the inputs of an asset after amount more is taken at input inputIndex
TakeAmount(inputs, aggregate, inputIndex, amount) ==
  IF aggregate
  THEN [inputs EXCEPT ![Len(inputs)].amount = @ + amount]
  ELSE Append(inputs, [index |-> inputIndex, amount |-> amount])

\* the body of utxo.assets.forEach in findBestMatchByNeededAssets, on the
\* state st = [assetList, inputs, amount, lastAssetId]
TakeAsset(st, utxo, asset) ==
  IF ~(asset.assetId \in DOMAIN st.assetList /\ ~st.assetList[asset.assetId].done)
  THEN [st EXCEPT !.lastAssetId = asset.assetId]
  ELSE
    LET spent == \E i \in 1 .. Len(st.inputs) : st.inputs[i] = utxo.index
        inputIndex == InputIndexOf(st.inputs, utxo)
        entry == st.assetList[asset.assetId]
        aggregationPolicy == IF Has(asset, "aggregationPolicy") THEN asset.aggregationPolicy
                             ELSE "aggregatable"
        aggregate == /\ aggregationPolicy = "aggregatable"
                     /\ st.lastAssetId = asset.assetId
                     /\ Len(entry.inputs) > 0
        taken == IF entry.amount <= asset.amount
                 THEN [entry EXCEPT !.inputs = TakeAmount(entry.inputs, aggregate, inputIndex, entry.amount),
                                    !.change = asset.amount - entry.amount,
                                    !.done = TRUE]
                 ELSE [entry EXCEPT !.inputs = TakeAmount(entry.inputs, aggregate, inputIndex, asset.amount),
                                    !.amount = @ - asset.amount]
    IN [assetList |-> [st.assetList EXCEPT ![asset.assetId] = taken],
        inputs |-> IF spent THEN st.inputs ELSE Append(st.inputs, utxo.index),
        amount |-> IF spent THEN st.amount ELSE st.amount + utxo.value,
        lastAssetId |-> asset.assetId]

RECURSIVE TakeAssets(_, _, _)
TakeAssets(st, utxo, i) ==
  IF i > Len(utxo.assets) THEN st
  ELSE TakeAssets(TakeAsset(st, utxo, utxo.assets[i]), utxo, i + 1)

\* selectedUtxos.some(...): output after output until the asset of key is done
RECURSIVE TakeUtxos(_, _, _, _)
TakeUtxos(st, selectedUtxos, key, i) ==
  IF i > Len(selectedUtxos) THEN st
  ELSE LET next == TakeAssets(st, selectedUtxos[i], 1)
       IN IF next.assetList[key].done THEN next
          ELSE TakeUtxos(next, selectedUtxos, key, i + 1)

\* Asset.prototype.findBestMatchByNeededAssets(utxos, assetList, key, tx,
\* inputvalues): what it returns, the outputs it selected, and assetList,
\* tx.inputs and inputvalues.amount as it leaves them
findBestMatchByNeededAssets(utxos, assetList, key, inputs, inputvalues) ==
  LET selectedUtxos == SelectedUtxos(utxos, assetList, key)
      st == TakeUtxos([assetList |-> assetList, inputs |-> inputs, amount |-> inputvalues,
                       lastAssetId |-> "undefined"], selectedUtxos, key, 1)
  IN IF selectedUtxos = <<>>
     THEN [returned |-> FALSE, selectedUtxos |-> <<>>, assetList |-> assetList,
           inputs |-> inputs, amount |-> inputvalues]
     ELSE [returned |-> TRUE, selectedUtxos |-> selectedUtxos, assetList |-> st.assetList,
           inputs |-> st.inputs, amount |-> st.amount]

\* utxos.filter(...) of addInputsForSendTransaction: the outputs with an entry
\* of the asset
AssetUtxos(utxos, asset) ==
  SelectSeq(utxos, LAMBDA element : \E i \in 1 .. Len(element.assets) :
                                      element.assets[i].assetId = asset)

-----------------------------------------------------------------------------
(* Asset: the identifier of an asset.  Hash.sha256, Hash.ripemd160 and      *)
(* Base58Check.encode are kept as the terms they are applied to: equal      *)
(* arguments give equal results, and different arguments different ones.    *)

POSTFIXBYTELENGTH == 2
UNLOCKEPADDING == [aggregatable |-> 11831, hybrid |-> 11883, dispersed |-> 11854]
LOCKEPADDING == [aggregatable |-> 8398, hybrid |-> 8450, dispersed |-> 8420]

\* padLeadingZeros(hex) of asset.js with no byteSize: Math.ceil(hex.length / 2)
padLeadingZerosToBytes(hex) == padLeadingZeros(hex, (Len(hex) + 1) \div 2)

\* Hash.ripemd160(Hash.sha256(payloadToHash))
Hash160(payloadToHash) == [ripemd160 |-> [sha256 |-> payloadToHash]]

\* Base58Check.encode(concatenation)
Base58CheckEncode(concatenation) == [base58check |-> concatenation]

\* hashAndBase58CheckEncode with no divisibility bytes after the hash
hashAndBase58CheckEncodeNoPostfix(this, payloadToHash, padding) ==
  Base58CheckEncode([padding |-> HexToBuffer(padLeadingZerosToBytes(Digits(padding, 16))),
                     hash160 |-> Hash160(payloadToHash),
                     divisibility |-> <<>>])

\* Asset.prototype.hashAndBase58CheckEncode(payloadToHash, padding): the
\* concatenation is kept as its three parts
hashAndBase58CheckEncode(this, payloadToHash, padding) ==
  Base58CheckEncode([padding |-> HexToBuffer(padLeadingZerosToBytes(Digits(padding, 16))),
                     hash160 |-> Hash160(payloadToHash),
                     divisibility |-> HexToBuffer(padLeadingZeros(Digits(this.divisibility, 16),
                                                                  POSTFIXBYTELENGTH))])

\* Asset.prototype.createIdFromTxidIndex(firstInput, padding): this.assetId
createIdFromTxidIndex(this, firstInput, padding) ==
  hashAndBase58CheckEncode(this, <<firstInput.prevTxId, ":", firstInput.outputIndex>>, padding)

\* Asset.prototype.createIdFromPubKeyHashInput(script, padding): this.assetId
createIdFromPubKeyHashInput(this, script, padding) ==
  hashAndBase58CheckEncode(this, [buildPublicKeyHashOut |-> Hash160(script)], padding)

\* Asset.prototype.getAssetId(firstInput): an unknown policy has no padding,
\* and padding.toString throws a TypeError; the unlocked asset of an input
\* with a previous output calls createIdFromPreviousOutputScriptPubKey, which
\* is not defined
getAssetId(this, firstInput) ==
  IF TruthyB(this, "lockStatus")
  THEN IF this.aggregationPolicy \notin DOMAIN LOCKEPADDING THEN Threw("TypeError")
       ELSE Returned(createIdFromTxidIndex(this, firstInput, LOCKEPADDING[this.aggregationPolicy]))
  ELSE IF Has(firstInput, "previousOutput") THEN Threw("ReferenceError")
  ELSE IF this.aggregationPolicy \notin DOMAIN UNLOCKEPADDING THEN Threw("TypeError")
  ELSE Returned(createIdFromPubKeyHashInput(this, firstInput.script,
                                            UNLOCKEPADDING[this.aggregationPolicy]))

\* Asset.prototype.setAmount(amount, divisibility), amount set
setAmount(this, amount, divisibility) ==
  With(With(With(this, "type", "issuance"), "divisibility", divisibility), "amount", amount)

\* Asset.prototype.setLockStatus(lockStatus)
setLockStatus(this, lockStatus) ==
  With(With(this, "lockStatus", lockStatus), "type", "issuance")

\* Asset.prototype.setAggregationPolicy(aggregationPolicy)
setAggregationPolicy(this, aggregationPolicy) ==
  With(With(this, "aggregationPolicy", aggregationPolicy), "type", "issuance")

-----------------------------------------------------------------------------
(* SpecFlags: the flags byte codec on every (divisibility, lockStatus,      *)
(* aggregationPolicy) of the bounded sets                                   *)

MaxDivisibility == 8
PolicyNames == {"aggregatable", "hybrid", "dispersed", "unknown"}

FlagsIdle == flagsParams = NoResult /\ flagsThis = NoResult /\ flagsRes = NoResult /\ flagsDec = NoResult
PaymentIdle == payment = NoResult /\ encRes = NoResult /\ decRes = NoResult
BulkIdle == paymentsArray = <<>> /\ bulkRes = NoResult /\ bulkDec = NoResult
SkipIdle == payments = <<>> /\ skipRes = NoResult /\ inputRes = NoResult
RecordIdle ==
  record = NoResult /\ budget = 0 /\ recRes = NoResult /\ recDec = NoResult /\ assetRes = NoResult
IdIdle == issued = NoResult /\ idLog = <<>>
AssetIdle == assetObj = NoResult /\ encodeLog = <<>> /\ burnRes = NoResult
DecodeIdle == buffer = <<>> /\ bufDec = NoResult
SendIdle == sendStep = "idle" /\ sendRes = NoResult /\ txOutputs = <<>> /\ assetData = <<>>
SelectIdle ==
  /\ walletUtxos = <<>> /\ neededAssets = <<>> /\ assetOrder = <<>> /\ txInputs = <<>>
  /\ totalInputs = 0 /\ selCall = NoResult /\ selRes = NoResult

FlagsInit ==
  /\ pc = "flags"
  /\ codec = "payment" /\ PaymentIdle /\ BulkIdle /\ SkipIdle /\ RecordIdle /\ SelectIdle /\ IdIdle /\ AssetIdle /\ DecodeIdle /\ SendIdle
  /\ flagsParams \in [divisibility : -1 .. MaxDivisibility, lockStatus : BOOLEAN,
                       aggregationPolicy : PolicyNames]
  /\ flagsThis = IssueFlagsEncoder(flagsParams)
  /\ flagsRes = NoResult
  /\ flagsDec = NoResult

FlagsEncode ==
  /\ pc = "flags"
  /\ flagsRes = NoResult
  /\ flagsRes' = IssueFlagsEncode(flagsThis)
  /\ flagsThis' = IssueFlagsEncodeThis(flagsThis)
  /\ UNCHANGED <<pc, flagsParams, flagsDec, paymentVars, bulkVars, skipVars, recordVars, selectVars, idVars, assetVars, decodeVars, sendVars>>

FlagsDecode ==
  /\ pc = "flags"
  /\ IsReturned(flagsRes)
  /\ flagsDec = NoResult
  /\ flagsDec' = Returned(IssueFlagsDecode(flagsRes.value[1]))
  /\ UNCHANGED <<pc, flagsParams, flagsThis, flagsRes, paymentVars, bulkVars, skipVars, recordVars, selectVars, idVars, assetVars, decodeVars, sendVars>>

FlagsNext == FlagsEncode \/ FlagsDecode

SpecFlags == FlagsInit /\ [][FlagsNext]_vars

FlagsValid(params) ==
  /\ params.divisibility \in 0 .. 7
  /\ params.aggregationPolicy \in {"aggregatable", "hybrid", "dispersed"}

\* C8: for divisibility in 0..7, either lock status and each of the three
\* policies, encode gives exactly one byte and decode of that byte gives the
\* same (divisibility, lockStatus, aggregationPolicy); encode throws exactly
\* for a divisibility outside 0..7 or a policy name that is not one of the
\* three.
FlagsRoundTrip ==
  /\ flagsRes # NoResult => (IsReturned(flagsRes) <=> FlagsValid(flagsParams))
  /\ IsReturned(flagsRes) => Len(flagsRes.value) = 1 /\ flagsRes.value[1] \in 0 .. 255
  /\ flagsDec # NoResult =>
        /\ IsReturned(flagsDec)
        /\ flagsDec.value.divisibility = flagsParams.divisibility
        /\ flagsDec.value.lockStatus = flagsParams.lockStatus
        /\ flagsDec.value.aggregationPolicy = flagsParams.aggregationPolicy

FlagsRoundTripWitness ==
  /\ IsReturned(flagsDec)
  /\ flagsParams = [divisibility |-> 7, lockStatus |-> FALSE, aggregationPolicy |-> "dispersed"]
  /\ flagsRes.value = <<232>>

-----------------------------------------------------------------------------
(* SpecPayment: one payment through encode and decode of either codec *)

Outputs == {-1, 0, 1, 30, 31, 32, 255, 8191, 8192}
Amounts == {0, 5, 100}

\* the params of a payment: skip and percent, and any of the other properties
Payments ==
  { Pick(full, {"skip", "percent"} \cup optional) :
      full \in [skip : BOOLEAN, percent : BOOLEAN, output : Outputs, range : BOOLEAN,
                amount : Amounts, burn : BOOLEAN],
      optional \in SUBSET {"output", "range", "amount", "burn"} }

PaymentInit ==
  /\ pc = "payment"
  /\ codec \in {"payment", "burn"}
  /\ payment \in Payments
  /\ encRes = NoResult
  /\ decRes = NoResult
  /\ FlagsIdle /\ BulkIdle /\ SkipIdle /\ RecordIdle /\ SelectIdle /\ IdIdle /\ AssetIdle /\ DecodeIdle /\ SendIdle

\* new PaymentEncoder(payment).encode(), new BurnPaymentEncoder(payment).encode()
Encode ==
  /\ pc = "payment"
  /\ encRes = NoResult
  /\ encRes' = IF codec = "burn" THEN BurnPaymentEncode(BurnPaymentEncoder(payment))
               ELSE PaymentEncode(PaymentEncoder(payment))
  /\ UNCHANGED <<pc, codec, payment, decRes, flagsVars, bulkVars, skipVars, recordVars, selectVars, idVars, assetVars, decodeVars, sendVars>>

\* decode(consume) of the codec on a fresh consumer of the encoded bytes
Decode ==
  /\ pc = "payment"
  /\ IsReturned(encRes)
  /\ decRes = NoResult
  /\ LET d == IF codec = "burn" THEN BurnPaymentDecode(encRes.value, 0)
              ELSE PaymentDecode(encRes.value, 0)
     IN decRes' = IF d.ok THEN Returned(d.payment) ELSE Threw("decode")
  /\ UNCHANGED <<pc, codec, payment, encRes, flagsVars, bulkVars, skipVars, recordVars, selectVars, idVars, assetVars, decodeVars, sendVars>>

PaymentNext == Encode \/ Decode

SpecPayment == PaymentInit /\ [][PaymentNext]_vars

FitsOutput(p) ==
  /\ Has(p, "output")
  /\ p.output >= 0
  /\ p.output <= (IF TruthyB(p, "range") THEN 8191 ELSE 31)

\* C9: with a non-zero amount, PaymentEncoder.encode returns bytes exactly
\* when the output is non-negative and within 0..31 (range false) or 0..8191
\* (range true); a non-negative output past the bound throws the
\* out-of-bounds error and gives no bytes; a decoded payment has the output
\* and range that were encoded, and output 8191 with range does decode.
PaymentOutputBounds ==
  (codec = "payment" /\ encRes # NoResult /\ TruthyN(payment, "amount")) =>
    /\ IsReturned(encRes) <=> FitsOutput(payment)
    /\ (Has(payment, "output") /\ payment.output >= 0 /\ ~FitsOutput(payment)) =>
         encRes = Threw("Output value is out of bounds")
    /\ IsReturned(decRes) =>
         /\ decRes.value.output = payment.output
         /\ decRes.value.range = TruthyB(payment, "range")
    /\ (decRes # NoResult /\ payment.output = 8191) => IsReturned(decRes)

PaymentOutputBoundsWitness ==
  /\ codec = "payment"
  /\ IsReturned(decRes)
  /\ payment.output = 8191 /\ TruthyB(payment, "range")
  /\ decRes.value.output = 8191 /\ decRes.value.range

\* the burn sentinel on the wire: output reference 31 with the range bit clear
IsBurnSentinel(bytes) ==
  BitAnd(bytes[1], 31) = BURN_OUTPUT /\ BitAnd(bytes[1], rangeFlag) = 0

\* C10: the bytes BurnPaymentEncoder.encode returns carry the burn sentinel
\* exactly when the payment has burn = true; a non-burn payment with output 31
\* and no range throws the reserved-value error, a payment with burn and an
\* output throws; a burn with an amount and neither output nor range encodes,
\* and decode of the returned bytes gives burn = true exactly for a burn.
BurnSentinelIffBurn ==
  (codec = "burn" /\ encRes # NoResult) =>
    /\ IsReturned(encRes) => (IsBurnSentinel(encRes.value) <=> TruthyB(payment, "burn"))
    /\ (~TruthyB(payment, "burn") /\ Has(payment, "output") /\ payment.output = BURN_OUTPUT
          /\ ~TruthyB(payment, "range")) =>
         encRes = Threw("Received range and output values reserved to represent burn")
    /\ (TruthyB(payment, "burn") /\ Has(payment, "output")) =>
         encRes = Threw("Received both burn and output")
    /\ (TruthyB(payment, "burn") /\ ~Has(payment, "output") /\ ~Has(payment, "range")
          /\ TruthyN(payment, "amount")) => IsReturned(encRes)
    /\ IsReturned(decRes) => (TruthyB(decRes.value, "burn") <=> TruthyB(payment, "burn"))
    /\ (decRes # NoResult /\ TruthyB(payment, "burn")) => IsReturned(decRes)

BurnSentinelIffBurnWitness ==
  /\ codec = "burn"
  /\ TruthyB(payment, "burn")
  /\ IsReturned(encRes) /\ IsBurnSentinel(encRes.value)
  /\ IsReturned(decRes) /\ TruthyB(decRes.value, "burn") /\ ~Has(decRes.value, "output")

-----------------------------------------------------------------------------
(* Sequences of at most n elements of a set *)

SeqUpTo(S, n) == UNION { [1 .. k -> S] : k \in 0 .. n }

MaxPayments == 2

-----------------------------------------------------------------------------
(* SpecBulk: an array of payments through encodeBulk and decodeBulk *)

BulkPayments ==
  { [skip |-> FALSE, range |-> FALSE, percent |-> FALSE, output |-> 0, amount |-> 5],
    [skip |-> TRUE, range |-> FALSE, percent |-> FALSE, output |-> 1, amount |-> 5],
    [skip |-> FALSE, range |-> FALSE, percent |-> TRUE, output |-> 30, amount |-> 100],
    [skip |-> FALSE, range |-> FALSE, percent |-> FALSE, output |-> 31, amount |-> 7],
    [skip |-> FALSE, range |-> TRUE, percent |-> FALSE, output |-> 0, amount |-> 5],
    [skip |-> TRUE, range |-> TRUE, percent |-> TRUE, output |-> 8191, amount |-> 100],
    [skip |-> FALSE, range |-> FALSE, percent |-> FALSE, output |-> 32, amount |-> 5],
    [skip |-> FALSE, percent |-> FALSE, burn |-> TRUE, amount |-> 5] }

BulkInit ==
  /\ pc = "bulk"
  /\ codec \in {"payment", "burn"}
  /\ paymentsArray \in SeqUpTo(BulkPayments, MaxPayments)
  /\ bulkRes = NoResult
  /\ bulkDec = NoResult
  /\ FlagsIdle /\ PaymentIdle /\ SkipIdle /\ RecordIdle /\ SelectIdle /\ IdIdle /\ AssetIdle /\ DecodeIdle /\ SendIdle

EncodeBulk ==
  /\ pc = "bulk"
  /\ bulkRes = NoResult
  /\ bulkRes' = IF codec = "burn" THEN burnEncodeBulk(paymentsArray)
                ELSE encodeBulk(paymentsArray)
  /\ UNCHANGED <<pc, paymentsArray, bulkDec, flagsVars, paymentVars, skipVars, recordVars, selectVars, idVars, assetVars, decodeVars, sendVars>>

\* decodeBulk(consume) of the codec on a fresh consumer of the encoded bytes
DecodeBulk ==
  /\ pc = "bulk"
  /\ IsReturned(bulkRes)
  /\ bulkDec = NoResult
  /\ bulkDec' = Returned(IF codec = "burn" THEN burnDecodeBulk(bulkRes.value, 0, <<>>).paymentsArray
                         ELSE decodeBulk(bulkRes.value, 0, <<>>).paymentsArray)
  /\ UNCHANGED <<pc, paymentsArray, bulkRes, flagsVars, paymentVars, skipVars, recordVars, selectVars, idVars, assetVars, decodeVars, sendVars>>

BulkNext == EncodeBulk \/ DecodeBulk

SpecBulk == BulkInit /\ [][BulkNext]_vars

ValidPayment(p) ==
  /\ TruthyN(p, "amount") /\ p.amount > 0
  /\ FitsOutput(p)

\* C3: for a list of valid payments, PaymentEncoder.decodeBulk on the bytes of
\* encodeBulk returns a list of the same length whose i-th element has the
\* skip, range, percent, output and amount of the i-th payment.
BulkRoundTrip ==
  (codec = "payment" /\ bulkDec # NoResult
     /\ \A i \in 1 .. Len(paymentsArray) : ValidPayment(paymentsArray[i])) =>
    /\ Len(bulkDec.value) = Len(paymentsArray)
    /\ \A i \in 1 .. Len(paymentsArray) :
         bulkDec.value[i] = PaymentEncoder(paymentsArray[i])

-----------------------------------------------------------------------------
(* SpecSkip: Asset.payments through paymentsInputToSkip and back *)

MaxInput == 2

\* the payments addPayment and addBurn push
addPayment(input, amount, output, range, percent) ==
  [input |-> input, amount |-> amount, output |-> output, range |-> range, percent |-> percent]

addBurn(input, amount, percent) ==
  [input |-> input, amount |-> amount, percent |-> percent, burn |-> TRUE]

SkipPayments ==
  { addPayment(i, 5, 1, FALSE, FALSE) : i \in 0 .. MaxInput }
    \cup { addPayment(i, 100, 300, TRUE, TRUE) : i \in 0 .. MaxInput }
    \cup { addBurn(i, 7, FALSE) : i \in 0 .. MaxInput }

SkipInit ==
  /\ pc = "skip"
  /\ payments \in SeqUpTo(SkipPayments, MaxPayments + 1)
  /\ skipRes = NoResult
  /\ inputRes = NoResult
  /\ codec = "payment" /\ FlagsIdle /\ PaymentIdle /\ BulkIdle /\ RecordIdle /\ SelectIdle /\ IdIdle /\ AssetIdle /\ DecodeIdle /\ SendIdle

InputToSkip ==
  /\ pc = "skip"
  /\ skipRes = NoResult
  /\ skipRes' = Returned(paymentsInputToSkip(payments))
  /\ UNCHANGED <<pc, payments, inputRes, flagsVars, paymentVars, bulkVars, recordVars, selectVars, idVars, assetVars, decodeVars, sendVars>>

SkipToInput ==
  /\ pc = "skip"
  /\ IsReturned(skipRes)
  /\ inputRes = NoResult
  /\ inputRes' = Returned(paymentsSkipToInput(skipRes.value))
  /\ UNCHANGED <<pc, payments, skipRes, flagsVars, paymentVars, bulkVars, recordVars, selectVars, idVars, assetVars, decodeVars, sendVars>>

SkipNext == InputToSkip \/ SkipToInput

SpecSkip == SkipInit /\ [][SkipNext]_vars

SortedByInput(list) == \A i \in 1 .. Len(list) - 1 : list[i].input <= list[i + 1].input

\* the input indices start at 0 and never step by more than 1
DenseInputs(list) ==
  /\ list # <<>> => list[1].input = 0
  /\ \A i \in 1 .. Len(list) - 1 : list[i + 1].input <= list[i].input + 1

SamePayment(a, b) ==
  /\ a.input = b.input
  /\ Pick(a, {"output", "range", "percent", "amount"}) = Pick(b, {"output", "range", "percent", "amount"})
  /\ TruthyB(a, "burn") <=> TruthyB(b, "burn")

SamePayments(a, b) ==
  /\ Len(a) = Len(b)
  /\ \A i \in 1 .. Len(a) : SamePayment(a[i], b[i])

\* C2 as stated: for every payment list sorted and non-decreasing by input,
\* paymentsSkipToInput(paymentsInputToSkip(P)) is P, element by element.
SkipRoundTripSorted ==
  (inputRes # NoResult /\ SortedByInput(payments)) => SamePayments(inputRes.value, payments)

\* C2 amended: for every payment list sorted by input whose input indices
\* start at 0 and step by at most 1, paymentsSkipToInput(paymentsInputToSkip(P))
\* is P: same length and order, each element with the same input, output,
\* range, percent, burn and amount.
SkipRoundTripDense ==
  (inputRes # NoResult /\ SortedByInput(payments) /\ DenseInputs(payments)) =>
    SamePayments(inputRes.value, payments)

SkipRoundTripDenseWitness ==
  /\ IsReturned(inputRes)
  /\ Len(payments) = 3
  /\ payments[1].input = 0 /\ payments[2].input = 0 /\ payments[3].input = 1
  /\ TruthyB(payments[2], "burn")
  /\ SamePayments(inputRes.value, payments)

-----------------------------------------------------------------------------
(* SpecRecord: an issuance, transfer or burn record through encode under a  *)
(* byte budget, the codec's decode and Asset.fromBuffer                     *)

TorrentHashSample == [i \in 1 .. 20 |-> 17]
Sha2Sample == [i \in 1 .. 32 |-> 34]
OtherProtocol == ASSET_IDENTIFIER + 1
Budgets == {9, 12, 30, 63, MAXBYTESIZE}

\* which of torrentHash, sha2 and noRules a record carries
HashKeys ==
  {{}, {"noRules"}, {"torrentHash"}, {"torrentHash", "noRules"}, {"torrentHash", "sha2"}, {"sha2"}}

RecordHashes ==
  { Pick([torrentHash |-> TorrentHashSample, sha2 |-> Sha2Sample, noRules |-> TRUE], keys) :
      keys \in HashKeys }

RecordHeaders == [protocol : {ASSET_IDENTIFIER, OtherProtocol}, version : {1, DA_TX_VERSION}]

IssuanceFields ==
  { [amount |-> 5, lockStatus |-> TRUE, divisibility |-> 0, aggregationPolicy |-> "aggregatable"],
    [amount |-> 100, lockStatus |-> TRUE, divisibility |-> 2, aggregationPolicy |-> "dispersed"],
    [amount |-> 5, lockStatus |-> FALSE, divisibility |-> 7, aggregationPolicy |-> "hybrid"] }

\* payments as the encoders receive them, with their skip flag
RecordPayments ==
  { [skip |-> FALSE, range |-> FALSE, percent |-> FALSE, output |-> 0, amount |-> 5],
    [skip |-> TRUE, range |-> FALSE, percent |-> FALSE, output |-> 1, amount |-> 5],
    [skip |-> FALSE, range |-> TRUE, percent |-> TRUE, output |-> 8191, amount |-> 100] }

BurnRecordPayments ==
  { [skip |-> FALSE, range |-> FALSE, percent |-> FALSE, output |-> 1, amount |-> 5],
    [skip |-> FALSE, range |-> TRUE, percent |-> FALSE, output |-> 8191, amount |-> 100],
    [skip |-> FALSE, percent |-> FALSE, burn |-> TRUE, amount |-> 5] }

Records ==
  { Merge(Merge(Merge(header, fields), hashes), [type |-> "issuance", payments |-> list]) :
      header \in RecordHeaders, fields \in IssuanceFields, hashes \in RecordHashes,
      list \in SeqUpTo(RecordPayments, MaxPayments) }
  \cup
  { Merge(Merge(header, hashes), [type |-> "transfer", payments |-> list]) :
      header \in RecordHeaders, hashes \in RecordHashes,
      list \in SeqUpTo(RecordPayments, MaxPayments) }
  \cup
  { Merge(Merge(header, hashes), [type |-> "burn", payments |-> list]) :
      header \in RecordHeaders, hashes \in RecordHashes,
      list \in SeqUpTo(BurnRecordPayments, MaxPayments) }

\* new encoder.encoder(this).encode(budget), the encoder being the one of
\* OP_CODES[this.type]
encode(this, byteSize) ==
  IF this.type = "issuance" THEN IssuanceEncode(IssuanceEncoder(this), byteSize)
  ELSE TransferEncode(TransferEncoder(this), byteSize)

RecordInit ==
  /\ pc = "record"
  /\ codec = "payment" /\ FlagsIdle /\ PaymentIdle /\ BulkIdle /\ SkipIdle /\ SelectIdle /\ IdIdle /\ AssetIdle /\ DecodeIdle /\ SendIdle
  /\ record \in Records
  /\ budget \in Budgets
  /\ recRes = NoResult
  /\ recDec = NoResult
  /\ assetRes = NoResult

RecordEncode ==
  /\ pc = "record"
  /\ recRes = NoResult
  /\ recRes' = encode(record, budget)
  /\ UNCHANGED <<pc, record, budget, recDec, assetRes, flagsVars, paymentVars, bulkVars, skipVars, selectVars, idVars, assetVars, decodeVars, sendVars>>

\* the decode of the codec that encoded the record
RecordDecode ==
  /\ pc = "record"
  /\ IsReturned(recRes)
  /\ recDec = NoResult
  /\ recDec' = IF record.type = "issuance" THEN IssuanceDecode(recRes.value.codeBuffer)
               ELSE TransferDecode(recRes.value.codeBuffer)
  /\ UNCHANGED <<pc, record, budget, recRes, assetRes, flagsVars, paymentVars, bulkVars, skipVars, selectVars, idVars, assetVars, decodeVars, sendVars>>

FromBuffer ==
  /\ pc = "record"
  /\ IsReturned(recRes)
  /\ assetRes = NoResult
  /\ assetRes' = fromBuffer(recRes.value.codeBuffer)
  /\ UNCHANGED <<pc, record, budget, recRes, recDec, flagsVars, paymentVars, bulkVars, skipVars, selectVars, idVars, assetVars, decodeVars, sendVars>>

RecordNext == RecordEncode \/ RecordDecode \/ FromBuffer

SpecRecord == RecordInit /\ [][RecordNext]_vars

\* the payments of a record as its codec encodes them
PaymentsCode(this) ==
  IF this.type = "burn" THEN burnEncodeBulk(this.payments) ELSE encodeBulk(this.payments)

\* the record passes the checks of its encoder and its tail encodes
TailEncodes(this) ==
  /\ IsReturned(PaymentsCode(this))
  /\ this.type = "issuance" =>
       /\ this.amount > 0
       /\ this.lockStatus
       /\ this.divisibility \in 0 .. 7
       /\ this.aggregationPolicy \in {"aggregatable", "hybrid", "dispersed"}

\* header, opcode and tail: the size of the record with no hash embedded
BaseSize(this) ==
  IF this.type = "issuance"
  THEN 3 + 1 + Len(sffcEncode(this.amount)) + Len(PaymentsCode(this).value) + 1
  ELSE 3 + 1 + Len(PaymentsCode(this).value)

\* C4: a successful encode(byteSize) of an issuance, transfer or burn record
\* returns at most byteSize bytes, whatever hashes the record has; a record
\* whose header, opcode and tail alone exceed byteSize is rejected with the
\* byte-budget error.
EncodeWithinBudget ==
  /\ IsReturned(recRes) => Len(recRes.value.codeBuffer) <= budget
  /\ (recRes # NoResult /\ TailEncodes(record) /\ BaseSize(record) > budget) =>
       recRes = Threw("Data code is bigger then the allowed byte size")

EncodeWithinBudgetWitness ==
  /\ IsReturned(recRes)
  /\ record.type = "transfer"
  /\ Has(record, "sha2")
  /\ Len(recRes.value.codeBuffer) = budget
  /\ recRes.value.leftover = <<record.sha2>>

\* the opcode and hash bytes of an encoded record are those of a layout: the
\* decoder reads these hash fields for the opcode and expects these outside
HasLayout(res, layout, fields, multiSig, hash) ==
  /\ layout.known
  /\ layout.fields = fields
  /\ layout.multiSig = multiSig
  /\ Slice(res.codeBuffer, 4, Len(hash)) = hash

\* C5: an issuance with both hashes and base size b is encoded, when
\* b + 20 <= byteSize < b + 52, with the opcode of the layout "torrent hash
\* embedded, sha2 outside", the torrent hash in the record and leftover
\* [sha2]; when b <= byteSize < b + 20, with the opcode of the layout "neither
\* embedded", no hash in the record and leftover [torrentHash, sha2] in that
\* order; when b + 52 <= byteSize, with both hashes embedded and an empty
\* leftover.
IssuanceHashPlacement ==
  (/\ recRes # NoResult
   /\ record.type = "issuance"
   /\ TailEncodes(record)
   /\ Has(record, "torrentHash") /\ Has(record, "sha2")
   /\ BaseSize(record) <= budget) =>
     LET b == BaseSize(record)
         res == recRes.value
         layout == IssuanceLayout(res.codeBuffer[4])
     IN /\ IsReturned(recRes)
        /\ budget < b + 20 =>
             /\ HasLayout(res, layout, <<>>, MultiSigBoth, <<>>)
             /\ Len(res.codeBuffer) = b
             /\ res.leftover = <<record.torrentHash, record.sha2>>
        /\ (b + 20 <= budget /\ budget < b + 52) =>
             /\ HasLayout(res, layout, <<"torrentHash">>, MultiSigSha2, record.torrentHash)
             /\ Len(res.codeBuffer) = b + 20
             /\ res.leftover = <<record.sha2>>
        /\ b + 52 <= budget =>
             /\ HasLayout(res, layout, <<"torrentHash", "sha2">>, <<>>,
                          record.torrentHash \o record.sha2)
             /\ Len(res.codeBuffer) = b + 52
             /\ res.leftover = <<>>

IssuanceHashPlacementWitness ==
  /\ IsReturned(recRes)
  /\ record.type = "issuance"
  /\ Has(record, "torrentHash") /\ Has(record, "sha2")
  /\ budget = BaseSize(record) + 20
  /\ recRes.value.codeBuffer[4] = 2
  /\ recRes.value.leftover = <<Sha2Sample>>

\* C6: for one record and two byte sizes m1 < m2 under which encode succeeds,
\* the leftover returned under m2 has at most as many items as the one
\* returned under m1, for the issuance, transfer and burn encoders.
LeftoverMonotone ==
  IsReturned(recRes) =>
    \A m \in Budgets :
      LET other == encode(record, m)
      IN IsReturned(other) =>
           /\ m > budget => Len(other.value.leftover) <= Len(recRes.value.leftover)
           /\ m < budget => Len(other.value.leftover) >= Len(recRes.value.leftover)

LeftoverMonotoneWitness ==
  /\ IsReturned(recRes)
  /\ record.type = "burn"
  /\ Len(recRes.value.leftover) = 2
  /\ \E m \in Budgets :
       /\ m > budget
       /\ IsReturned(encode(record, m))
       /\ Len(encode(record, m).value.leftover) = 1

\* a record of the protocol that its encoder accepts
ValidRecord(this) ==
  /\ this.protocol = ASSET_IDENTIFIER
  /\ TailEncodes(this)
  /\ Has(this, "sha2") => Has(this, "torrentHash")

\* the decoded record d has the fields of record r, its hash fields being
\* those that the leftover says were embedded
SameRecord(d, r, leftover) ==
  /\ d.protocol = r.protocol
  /\ d.version = r.version
  /\ r.type = "issuance" =>
       /\ d.amount = [num |-> r.amount, den |-> 1]
       /\ d.divisibility = r.divisibility
       /\ d.lockStatus = r.lockStatus
       /\ d.aggregationPolicy = r.aggregationPolicy
  /\ Has(d, "torrentHash") <=> (Has(r, "torrentHash") /\ Len(leftover) < 2)
  /\ Has(d, "torrentHash") => d.torrentHash = r.torrentHash
  /\ Has(d, "sha2") <=> (Has(r, "sha2") /\ Len(leftover) = 0)
  /\ Has(d, "sha2") => d.sha2 = r.sha2
  /\ d.payments = r.payments

\* the Asset a has the fields of record r, its payments with their input
SameAsset(a, r) ==
  /\ a.protocol = r.protocol
  /\ a.version = r.version
  /\ a.type = r.type
  /\ r.type = "issuance" =>
       /\ a.amount = [num |-> r.amount, den |-> 1]
       /\ a.divisibility = r.divisibility
       /\ a.lockStatus = r.lockStatus
       /\ a.aggregationPolicy = r.aggregationPolicy
  /\ a.payments = paymentsSkipToInput(r.payments)

\* C1: for every valid record of each family and each layout, the codec's
\* decode and Asset.fromBuffer, on the bytes that encode returned, give the
\* record back: same protocol, version, family, issuance fields, hash fields
\* and payments.
RecordRoundTrip ==
  ValidRecord(record) =>
    /\ recDec # NoResult =>
         /\ IsReturned(recDec)
         /\ SameRecord(recDec.value, record, recRes.value.leftover)
    /\ assetRes # NoResult =>
         /\ IsReturned(assetRes)
         /\ SameAsset(assetRes.value, record)

\* C7: decoding a record whose first two bytes are not 0x4441 fails, in the
\* issuance and transfer/burn decoders and in Asset.fromBuffer.
WrongProtocolRejected ==
  (IsReturned(recRes)
     /\ BufferToInt(Slice(recRes.value.codeBuffer, 0, 2)) # ASSET_IDENTIFIER) =>
    /\ recDec # NoResult => IsThrew(recDec)
    /\ assetRes # NoResult => IsThrew(assetRes)

-----------------------------------------------------------------------------
(* SpecSelect: addInputsForSendTransaction going through the assets of      *)
(* assetList, one findBestMatchByNeededAssets call per asset                *)

MaxUtxos == 3

Held(assetId, amount, aggregationPolicy) ==
  [assetId |-> assetId, amount |-> amount, aggregationPolicy |-> aggregationPolicy]

\* the asset entries of the outputs of the wallet
UtxoAssets ==
  { <<Held("A", 5, "aggregatable")>>, <<Held("A", 10, "aggregatable")>>,
    <<Held("A", 20, "aggregatable")>>, <<Held("A", 25, "aggregatable")>>,
    <<Held("A", 30, "aggregatable"), Held("B", 5, "dispersed")>>,
    <<Held("A", 10, "aggregatable"), Held("B", 7, "dispersed")>>,
    <<Held("B", 5, "dispersed")>>,
    <<Held("B", 3, "dispersed"), Held("B", 2, "dispersed")>> }

\* an entry of assetList as addInputsForSendTransaction makes it
Needed(amount) == [amount |-> amount, done |-> FALSE, change |-> 0, inputs |-> <<>>]

SelectInit ==
  /\ pc = "select"
  /\ codec = "payment" /\ FlagsIdle /\ PaymentIdle /\ BulkIdle /\ SkipIdle /\ RecordIdle /\ IdIdle /\ AssetIdle /\ DecodeIdle /\ SendIdle
  /\ \E held \in SeqUpTo(UtxoAssets, MaxUtxos) :
       /\ held # <<>>
       /\ walletUtxos = [i \in 1 .. Len(held) |-> [index |-> i - 1, value |-> 600, assets |-> held[i]]]
  /\ \E amountA \in {25, 40} :
       \/ /\ neededAssets = [assetId \in {"A"} |-> Needed(amountA)]
          /\ assetOrder = <<"A">>
       \/ /\ neededAssets = [assetId \in {"A", "B"} |-> IF assetId = "A" THEN Needed(amountA) ELSE Needed(5)]
          /\ assetOrder \in {<<"A", "B">>, <<"B", "A">>}
  /\ txInputs = <<>>
  /\ totalInputs = 0
  /\ selCall = NoResult
  /\ selRes = NoResult

\* one turn of the loop of addInputsForSendTransaction over assetList
SelectForAsset ==
  /\ pc = "select"
  /\ assetOrder # <<>>
  /\ ~IsThrew(selRes)
  /\ LET key == Head(assetOrder)
         assetUtxos == AssetUtxos(walletUtxos, key)
         match == findBestMatchByNeededAssets(assetUtxos, neededAssets, key, txInputs, totalInputs)
     IN /\ assetOrder' = Tail(assetOrder)
        /\ selCall' = [key |-> key, utxos |-> assetUtxos, assetList |-> neededAssets,
                       inputs |-> txInputs]
        /\ IF assetUtxos = <<>>
           THEN /\ selRes' = Threw("No output with that asset")
                /\ UNCHANGED <<neededAssets, txInputs, totalInputs>>
           ELSE IF ~match.returned
           THEN /\ selRes' = Threw("Not enough assets")
                /\ UNCHANGED <<neededAssets, txInputs, totalInputs>>
           ELSE /\ selRes' = Returned([selectedUtxos |-> match.selectedUtxos])
                /\ neededAssets' = match.assetList
                /\ txInputs' = match.inputs
                /\ totalInputs' = match.amount
  /\ UNCHANGED <<pc, walletUtxos, flagsVars, paymentVars, bulkVars, skipVars, recordVars, idVars, assetVars, decodeVars, sendVars>>

SelectNext == SelectForAsset

SpecSelect == SelectInit /\ [][SelectNext]_vars

\* the amount of the asset that the call under way had to find, and what a
\* candidate of the call holds of it
NeededAmount == selCall.assetList[selCall.key].amount
Holding(utxo) == getUtxoAssetAmount(utxo, selCall.key)
ExactCandidate == \E i \in 1 .. Len(selCall.utxos) : Holding(selCall.utxos[i]) = NeededAmount

\* the selection took one output that holds exactly the amount needed, the
\* asset is done and its change is 0
ExactOutputTaken ==
  /\ IsReturned(selRes)
  /\ Len(selRes.value.selectedUtxos) = 1
  /\ Holding(selRes.value.selectedUtxos[1]) = NeededAmount
  /\ \A i \in 1 .. Len(txInputs) :
       i > Len(selCall.inputs) => txInputs[i] = selRes.value.selectedUtxos[1].index
  /\ neededAssets[selCall.key].done
  /\ neededAssets[selCall.key].change = 0

Holdings(outputs) == [i \in 1 .. Len(outputs) |-> [amount |-> Holding(outputs[i])]]
NoSingleCandidate == \A i \in 1 .. Len(selCall.utxos) : Holding(selCall.utxos[i]) < NeededAmount

\* the outputs selected are candidates taken greatest holding first, as many
\* as it takes to reach the amount needed and no more
GreatestFirstPrefix(selected) ==
  /\ \A i \in 1 .. Len(selected) : \E j \in 1 .. Len(selCall.utxos) : selected[i] = selCall.utxos[j]
  /\ \A i, j \in 1 .. Len(selected) : i # j => selected[i].index # selected[j].index
  /\ \A i \in 1 .. Len(selected) - 1 : Holding(selected[i]) >= Holding(selected[i + 1])
  /\ \A j \in 1 .. Len(selCall.utxos) :
       (\A i \in 1 .. Len(selected) : selected[i].index # selCall.utxos[j].index) =>
         Holding(selCall.utxos[j]) <= Holding(selected[Len(selected)])
  /\ SumAmounts(Holdings(selected)) >= NeededAmount
  /\ SumAmounts(Holdings(SubSeq(selected, 1, Len(selected) - 1))) < NeededAmount

\* C12: when no single candidate holds the amount needed, the outputs selected
\* are the candidates in descending order of their holding up to the first
\* prefix whose sum reaches the amount needed, and they are the inputs added;
\* when all the candidates together hold less, the selection fails with the
\* not-enough-assets error and adds no input.
GreedyFallback ==
  (selCall # NoResult /\ selCall.utxos # <<>> /\ NoSingleCandidate) =>
    IF SumAmounts(Holdings(selCall.utxos)) < NeededAmount
    THEN /\ selRes = Threw("Not enough assets")
         /\ txInputs = selCall.inputs
         /\ neededAssets = selCall.assetList
    ELSE /\ IsReturned(selRes)
         /\ GreatestFirstPrefix(selRes.value.selectedUtxos)
         /\ \A i \in 1 .. Len(selRes.value.selectedUtxos) :
              \E j \in 1 .. Len(txInputs) : txInputs[j] = selRes.value.selectedUtxos[i].index
         /\ neededAssets[selCall.key].done

GreedyFallbackWitness ==
  /\ IsReturned(selRes)
  /\ selCall.key = "A"
  /\ NeededAmount = 25
  /\ Holdings(selCall.utxos) = <<[amount |-> 10], [amount |-> 20], [amount |-> 5]>>
  /\ Holdings(selRes.value.selectedUtxos) = <<[amount |-> 20], [amount |-> 10]>>
  /\ txInputs = <<1, 0>>

-----------------------------------------------------------------------------
(* SpecId: an issuance Asset between its setters and getAssetId *)

MaxDerivations == 2
\* the arguments of setAmount: <<amount, divisibility>>
AmountAndDivisibility == {<<5, 0>>, <<100, 0>>, <<100, 7>>}
IdPolicies == {"aggregatable", "dispersed"}

FirstInputs ==
  { [prevTxId |-> "aa", outputIndex |-> 0, script |-> "keyA"],
    [prevTxId |-> "aa", outputIndex |-> 1, script |-> "keyA"],
    [prevTxId |-> "bb", outputIndex |-> 0, script |-> "keyB", previousOutput |-> "hex"] }

\* new Asset(data), data of an issuance
IdInit ==
  /\ pc = "id"
  /\ codec = "payment" /\ FlagsIdle /\ PaymentIdle /\ BulkIdle /\ SkipIdle /\ RecordIdle /\ SelectIdle /\ AssetIdle /\ DecodeIdle /\ SendIdle
  /\ \E policy \in IdPolicies, data \in AmountAndDivisibility :
       issued = [type |-> "issuance", aggregationPolicy |-> policy, assetId |-> "",
                 lockStatus |-> TRUE, divisibility |-> data[2], amount |-> data[1]]
  /\ idLog = <<>>

SetAmount ==
  /\ pc = "id"
  /\ \E args \in AmountAndDivisibility : issued' = setAmount(issued, args[1], args[2])
  /\ UNCHANGED <<pc, idLog, flagsVars, paymentVars, bulkVars, skipVars, recordVars, selectVars, assetVars, decodeVars, sendVars>>

SetLockStatus ==
  /\ pc = "id"
  /\ \E lockStatus \in BOOLEAN : issued' = setLockStatus(issued, lockStatus)
  /\ UNCHANGED <<pc, idLog, flagsVars, paymentVars, bulkVars, skipVars, recordVars, selectVars, assetVars, decodeVars, sendVars>>

SetAggregationPolicy ==
  /\ pc = "id"
  /\ \E policy \in IdPolicies : issued' = setAggregationPolicy(issued, policy)
  /\ UNCHANGED <<pc, idLog, flagsVars, paymentVars, bulkVars, skipVars, recordVars, selectVars, assetVars, decodeVars, sendVars>>

\* getAssetId(firstInput): a returned identifier is left in this.assetId
GetAssetId ==
  /\ pc = "id"
  /\ Len(idLog) < MaxDerivations
  /\ \E firstInput \in FirstInputs :
       LET res == getAssetId(issued, firstInput)
       IN /\ idLog' = Append(idLog, [this |-> issued, firstInput |-> firstInput, res |-> res])
          /\ issued' = IF IsReturned(res) THEN With(issued, "assetId", res.value) ELSE issued
  /\ UNCHANGED <<pc, flagsVars, paymentVars, bulkVars, skipVars, recordVars, selectVars, assetVars, decodeVars, sendVars>>

IdNext == SetAmount \/ SetLockStatus \/ SetAggregationPolicy \/ GetAssetId

SpecId == IdInit /\ [][IdNext]_vars

\* the call was made on a locked asset
Locked(call) == call.this.lockStatus

\* two calls with the same prevTxId, outputIndex and aggregationPolicy
SameOutputAndPolicy(a, b) ==
  /\ a.firstInput.prevTxId = b.firstInput.prevTxId
  /\ a.firstInput.outputIndex = b.firstInput.outputIndex
  /\ a.this.aggregationPolicy = b.this.aggregationPolicy

\* C13: the identifier of a locked asset is a function of prevTxId,
\* outputIndex, aggregationPolicy and divisibility only: two derivations with
\* these equal give the same identifier whatever else the Asset holds and
\* whatever was derived on it before, and two derivations that differ in the
\* divisibility only give different identifiers.
LockedIdDeterminism ==
  \A i, j \in 1 .. Len(idLog) :
    (Locked(idLog[i]) /\ Locked(idLog[j]) /\ SameOutputAndPolicy(idLog[i], idLog[j])) =>
      /\ IsReturned(idLog[i].res)
      /\ idLog[i].this.divisibility = idLog[j].this.divisibility =>
           idLog[i].res = idLog[j].res
      /\ idLog[i].this.divisibility # idLog[j].this.divisibility =>
           idLog[i].res # idLog[j].res

LockedIdDeterminismWitness ==
  /\ Len(idLog) = 2
  /\ Locked(idLog[1]) /\ Locked(idLog[2])
  /\ SameOutputAndPolicy(idLog[1], idLog[2])
  /\ idLog[1].this.divisibility = idLog[2].this.divisibility
  /\ idLog[1].this.amount # idLog[2].this.amount
  /\ IsReturned(idLog[1].res) /\ IsReturned(idLog[2].res)
  /\ idLog[2].this.assetId = idLog[1].res.value
  /\ idLog[1].res = idLog[2].res
  /\ issued.assetId = idLog[2].res.value

-----------------------------------------------------------------------------
(* SpecAsset: an Asset that payments are added to, then encoded *)

MaxEncodes == 2

\* new Asset(data) of an issuance with and without an amount, and of a transfer
NewAssets ==
  LET made == [aggregationPolicy |-> "aggregatable", assetId |-> "", lockStatus |-> TRUE,
               payments |-> <<>>, protocol |-> ASSET_IDENTIFIER, version |-> DA_TX_VERSION,
               divisibility |-> 0]
  IN { Merge(made, [type |-> "issuance", amount |-> 5]),
       Merge(made, [type |-> "issuance"]),
       Merge(made, [type |-> "transfer"]) }

\* the arguments of addPayment: one payment that encodes, one whose output is
\* out of bounds, one with no amount
AssetPayments ==
  { addPayment(i, 5, 1, FALSE, FALSE) : i \in 0 .. MaxInput }
    \cup { addPayment(i, 5, 40, FALSE, FALSE) : i \in 0 .. MaxInput }
    \cup { addPayment(i, 0, 1, TRUE, FALSE) : i \in 0 .. MaxInput }

AssetInit ==
  /\ pc = "asset"
  /\ codec = "payment" /\ FlagsIdle /\ PaymentIdle /\ BulkIdle /\ SkipIdle /\ RecordIdle /\ SelectIdle /\ IdIdle /\ DecodeIdle /\ SendIdle
  /\ assetObj \in NewAssets
  /\ encodeLog = <<>>
  /\ burnRes = NoResult

\* Asset.prototype.addPayment, on an Asset not yet encoded
AddPayment ==
  /\ pc = "asset"
  /\ encodeLog = <<>>
  /\ Len(assetObj.payments) < MaxPayments
  /\ \E paid \in AssetPayments :
       assetObj' = With(assetObj, "payments", Append(assetObj.payments, paid))
  /\ UNCHANGED <<pc, encodeLog, burnRes, flagsVars, paymentVars, bulkVars, skipVars, recordVars, selectVars, idVars, decodeVars, sendVars>>

\* Asset.prototype.addBurn, on an Asset not yet encoded: it throws on an
\* issuance before it does anything
AddBurn ==
  /\ pc = "asset"
  /\ encodeLog = <<>>
  /\ Len(assetObj.payments) < MaxPayments
  /\ \E input \in 0 .. MaxInput :
       IF assetObj.type = "issuance"
       THEN /\ burnRes' = [before |-> assetObj,
                           result |-> Threw("Can't add burn payment to an issuance transaction"),
                           after |-> assetObj]
            /\ UNCHANGED assetObj
       ELSE /\ assetObj' = With(With(assetObj, "payments",
                                     Append(assetObj.payments, addBurn(input, 7, FALSE))),
                                "type", "burn")
            /\ burnRes' = [before |-> assetObj, result |-> Returned("undefined"), after |-> assetObj']
  /\ UNCHANGED <<pc, encodeLog, flagsVars, paymentVars, bulkVars, skipVars, recordVars, selectVars, idVars, decodeVars, sendVars>>

\* setAmount, setLockStatus and setAggregationPolicy, on an Asset not yet
\* encoded
AssetSetAmount ==
  /\ pc = "asset"
  /\ encodeLog = <<>>
  /\ assetObj' = setAmount(assetObj, 5, 0)
  /\ UNCHANGED <<pc, encodeLog, burnRes, flagsVars, paymentVars, bulkVars, skipVars, recordVars, selectVars, idVars, decodeVars, sendVars>>

AssetSetLockStatus ==
  /\ pc = "asset"
  /\ encodeLog = <<>>
  /\ \E lockStatus \in BOOLEAN : assetObj' = setLockStatus(assetObj, lockStatus)
  /\ UNCHANGED <<pc, encodeLog, burnRes, flagsVars, paymentVars, bulkVars, skipVars, recordVars, selectVars, idVars, decodeVars, sendVars>>

AssetSetAggregationPolicy ==
  /\ pc = "asset"
  /\ encodeLog = <<>>
  /\ \E policy \in IdPolicies : assetObj' = setAggregationPolicy(assetObj, policy)
  /\ UNCHANGED <<pc, encodeLog, burnRes, flagsVars, paymentVars, bulkVars, skipVars, recordVars, selectVars, idVars, decodeVars, sendVars>>

\* Asset.prototype.encode(): the payments are put in skip form, the encoder of
\* OP_CODES[this.type] encodes under MAXBYTESIZE, and the payments are given
\* back their input only after the encoder has returned
EncodeAsset ==
  /\ pc = "asset"
  /\ Len(encodeLog) < MaxEncodes
  /\ \E skipped \in {With(assetObj, "payments", paymentsInputToSkip(assetObj.payments))} :
       \E result \in {encode(skipped, MAXBYTESIZE)} :
         /\ assetObj' = IF IsReturned(result)
                        THEN With(skipped, "payments", paymentsSkipToInput(skipped.payments))
                        ELSE skipped
         /\ encodeLog' = Append(encodeLog, [before |-> assetObj, result |-> result,
                                            after |-> assetObj'])
  /\ UNCHANGED <<pc, burnRes, flagsVars, paymentVars, bulkVars, skipVars, recordVars, selectVars, idVars, decodeVars, sendVars>>

AssetNext ==
  AddPayment \/ AddBurn \/ AssetSetAmount \/ AssetSetLockStatus \/ AssetSetAggregationPolicy \/ EncodeAsset

SpecAsset == AssetInit /\ [][AssetNext]_vars

\* C14: an encode of the Asset that fails leaves the Asset as it was before
\* the call: its payments still carry their input, and the next encode is
\* given the same payment list.
FailedEncodeLeavesAsset ==
  \A i \in 1 .. Len(encodeLog) :
    IsThrew(encodeLog[i].result) => encodeLog[i].after = encodeLog[i].before

-----------------------------------------------------------------------------
(* SpecDecode: decodeBulk on a consumer of any bytes: the encoding of a      *)
(* payment list, a truncated one, or bytes that encode nothing              *)

MaxBytes == 5

\* a byte that decode rejects as flags, bytes that are an output with no flag
\* or an amount of one byte, the first byte of an amount of two bytes, and an
\* output with the range flag
BufferBytes == {0, 1, 5, 32, BitOr(rangeFlag, 5)}

DecodeInit ==
  /\ pc = "decode"
  /\ codec \in {"payment", "burn"}
  /\ buffer \in SeqUpTo(BufferBytes, MaxBytes)
  /\ bufDec = NoResult
  /\ FlagsIdle /\ PaymentIdle /\ BulkIdle /\ SkipIdle /\ RecordIdle /\ SelectIdle /\ IdIdle /\ AssetIdle /\ SendIdle

\* decodeBulk(consumer(buffer)) of the codec
DecodeBuffer ==
  /\ pc = "decode"
  /\ bufDec = NoResult
  /\ bufDec' = Returned(IF codec = "burn" THEN burnDecodeBulk(buffer, 0, <<>>)
                        ELSE decodeBulk(buffer, 0, <<>>))
  /\ UNCHANGED <<pc, buffer, flagsVars, paymentVars, bulkVars, skipVars, recordVars, selectVars, idVars, assetVars, sendVars>>

DecodeNext == DecodeBuffer

SpecDecode == DecodeInit /\ [][DecodeNext]_vars

\* the position in attempts of the first decode that threw
FirstFailure(attempts) ==
  CHOOSE i \in 1 .. Len(attempts) : ~attempts[i].ok /\ \A j \in 1 .. i - 1 : attempts[j].ok

\* C15: bulk decode stops at the first decode that fails: that attempt is the
\* last one, the consumer stays where it left it, and the result holds one
\* payment for each attempt made before it.
BulkDecodeStopsAtFirstFailure ==
  IsReturned(bufDec) =>
    LET attempts == bufDec.value.attempts
        failed == FirstFailure(attempts)
    IN /\ failed = Len(attempts)
       /\ bufDec.value.curr = attempts[failed].to
       /\ Len(bufDec.value.paymentsArray) = failed - 1

\* C16: decodeBulk returns on every buffer, with a payment list, after a
\* number of decode attempts bounded by the length of the buffer: at most two
\* for each byte and one more.
BulkDecodeTerminates ==
  IsReturned(bufDec) =>
    /\ Len(bufDec.value.attempts) <= 2 * Len(buffer) + 1
    /\ Len(bufDec.value.paymentsArray) <= Len(buffer)

BulkDecodeTerminatesWitness ==
  /\ IsReturned(bufDec)
  /\ codec = "payment"
  /\ Len(buffer) = MaxBytes
  /\ Len(bufDec.value.paymentsArray) = 2
  /\ Len(bufDec.value.attempts) = 5
  /\ \E i \in 1 .. Len(buffer) : buffer[i] = 0

-----------------------------------------------------------------------------
(* The flags of a payment through the burn-aware codec (SpecPayment) *)

\* the flag of the mask set in the first byte of the encoded payment
FlagOnWire(mask) == BitAnd(encRes.value[1], mask) # 0

\* C17: the burn-aware codec carries skip and percent as the plain codec
\* does: a payment that is not a burn and that both codecs encode has the same
\* bytes from both, the flag bits of every payment the burn-aware codec
\* encodes are the payment's skip and percent, and its decode returns skip and
\* percent as they are in the bytes.
BurnCodecCarriesFlags ==
  (codec = "burn" /\ IsReturned(encRes)) =>
    /\ (~TruthyB(payment, "burn") /\ IsReturned(PaymentEncode(PaymentEncoder(payment)))) =>
         encRes.value = PaymentEncode(PaymentEncoder(payment)).value
    /\ FlagOnWire(skipFlag) = payment.skip
    /\ FlagOnWire(percentFlag) = payment.percent
    /\ IsReturned(decRes) =>
         /\ Has(decRes.value, "skip") /\ decRes.value.skip = FlagOnWire(skipFlag)
         /\ Has(decRes.value, "percent") /\ decRes.value.percent = FlagOnWire(percentFlag)

-----------------------------------------------------------------------------
(* The skip flags paymentsInputToSkip sets (SpecSkip) *)

\* element i of the sorted payments is the last one, or the one after it has
\* a strictly greater input
LastOrNextGreater(sorted, i) ==
  i = Len(sorted) \/ sorted[i + 1].input > sorted[i].input

\* C18 as stated: after the sort, the skip flag of a payment is true unless
\* the payment is the last one or the next one has a strictly greater input.
SkipUnlessNextGreater ==
  IsReturned(skipRes) =>
    \A i \in 1 .. Len(skipRes.value) :
      skipRes.value[i].skip = ~LastOrNextGreater(SortByInput(payments), i)

\* C18: after the sort, the skip flag of a payment is true exactly when the
\* payment is not the last one and the next one has a strictly greater input;
\* the last payment and a payment followed by one of the same input have it
\* false.
SkipIffNextGreater ==
  IsReturned(skipRes) =>
    LET sorted == SortByInput(payments)
    IN /\ Len(skipRes.value) = Len(sorted)
       /\ \A i \in 1 .. Len(sorted) :
            skipRes.value[i].skip = (i < Len(sorted) /\ sorted[i + 1].input > sorted[i].input)

SkipIffNextGreaterWitness ==
  /\ IsReturned(skipRes)
  /\ Len(payments) = 3
  /\ payments[1].input = 1 /\ payments[2].input = 0 /\ payments[3].input = 0
  /\ ~skipRes.value[1].skip /\ skipRes.value[2].skip /\ ~skipRes.value[3].skip

-----------------------------------------------------------------------------
(* The fields IssuanceEncoder.prototype.encode requires (SpecRecord) *)

RequiredFields == {"amount", "lockStatus", "aggregationPolicy", "protocol", "version"}

MissingFieldErrors ==
  {"Amount must be set", "lockStatus must be set", "aggregationPolicy must be set",
   "protocol must be set", "version must be set"}

\* C19: the encode of an issuance fails with a missing-field error exactly
\* when one of amount, lockStatus, aggregationPolicy, protocol and version is
\* not set; with the five set the record is encoded whether lockStatus is true
\* or false, if it fits the budget.
MissingFieldExactly ==
  (record # NoResult /\ record.type = "issuance" /\ recRes # NoResult) =>
    ((IsThrew(recRes) /\ recRes.error \in MissingFieldErrors)
       <=> ~(\A field \in RequiredFields : Has(record, field)))

-----------------------------------------------------------------------------
(* The opcode of an encoded issuance and the hashes in it (SpecRecord) *)

\* the bytes between the opcode and the tail of the encoded record
EmbeddedBytes == Slice(recRes.value.codeBuffer, 4, Len(recRes.value.codeBuffer) - BaseSize(record))

\* the torrent hash of the record is in the encoded record, after the opcode
TorrentEmbedded ==
  Has(record, "torrentHash") /\ Slice(EmbeddedBytes, 0, Len(TorrentHashSample)) = record.torrentHash

\* the sha2 of the record is in the encoded record, last before the tail
Sha2Embedded ==
  /\ Has(record, "sha2")
  /\ Len(EmbeddedBytes) >= Len(Sha2Sample)
  /\ Slice(EmbeddedBytes, Len(EmbeddedBytes) - Len(Sha2Sample), Len(Sha2Sample)) = record.sha2

IssuanceOpcode == recRes.value.codeBuffer[4]

\* the opcodes of the layouts other than the one with a single hash outside
\* the record, and what decode returns of the hashes
OpcodesOfOtherLayouts ==
  /\ IssuanceOpcode = ISSUANCE_OP_CODES[1 + 1] <=> (TorrentEmbedded /\ Sha2Embedded)
  /\ IssuanceOpcode = ISSUANCE_OP_CODES[3 + 1] <=>
       (Has(record, "torrentHash") /\ Has(record, "sha2") /\ EmbeddedBytes = <<>>)
  /\ IssuanceOpcode = ISSUANCE_OP_CODES[4 + 1] <=> (TorrentEmbedded /\ ~Has(record, "sha2"))
  /\ IssuanceOpcode = ISSUANCE_OP_CODES[5 + 1] <=>
       (~Has(record, "torrentHash") /\ ~Has(record, "sha2") /\ TruthyB(record, "noRules"))
  /\ IssuanceOpcode = ISSUANCE_OP_CODES[6 + 1] <=>
       (~Has(record, "torrentHash") /\ ~Has(record, "sha2") /\ ~TruthyB(record, "noRules"))
  /\ recDec # NoResult =>
       /\ IsReturned(recDec)
       /\ Has(recDec.value, "torrentHash") <=> TorrentEmbedded
       /\ Has(recDec.value, "sha2") <=> Sha2Embedded
       /\ Has(recDec.value, "torrentHash") => recDec.value.torrentHash = record.torrentHash
       /\ Has(recDec.value, "sha2") => recDec.value.sha2 = record.sha2

\* C20 as stated: opcode 2 is the one of the record in which only the sha2 is
\* embedded, the torrent hash being carried outside.
OpcodePerLayoutSha2Embedded ==
  (record # NoResult /\ record.type = "issuance" /\ IsReturned(recRes)) =>
    /\ OpcodesOfOtherLayouts
    /\ IssuanceOpcode = ISSUANCE_OP_CODES[2 + 1] <=>
         (Has(record, "torrentHash") /\ Sha2Embedded /\ ~TorrentEmbedded)

\* C20: the opcode of an encoded issuance is 1 when both hashes are embedded,
\* 2 when only the torrent hash is embedded and the sha2 is carried outside,
\* 3 when the record has both and embeds neither, 4 when it has only a
\* torrent hash, embedded, 5 with no hash and no rules, 6 with no hash and
\* rules allowed; decode returns exactly the hashes that are embedded.
OpcodePerLayout ==
  (record # NoResult /\ record.type = "issuance" /\ IsReturned(recRes)) =>
    /\ OpcodesOfOtherLayouts
    /\ IssuanceOpcode = ISSUANCE_OP_CODES[2 + 1] <=>
         (Has(record, "sha2") /\ TorrentEmbedded /\ ~Sha2Embedded)

OpcodePerLayoutWitness ==
  /\ record # NoResult /\ record.type = "issuance"
  /\ IsReturned(recRes) /\ IsReturned(recDec)
  /\ IssuanceOpcode = ISSUANCE_OP_CODES[2 + 1]
  /\ TorrentEmbedded /\ ~Sha2Embedded
  /\ recRes.value.leftover = <<record.sha2>>
  /\ recDec.value.torrentHash = record.torrentHash
  /\ ~Has(recDec.value, "sha2")

-----------------------------------------------------------------------------
(* Asset: the assembly of a transfer or burn transaction.  tx.inputs is the *)
(* list of the outputs spent, tx.outputs the list of the outputs made.      *)

\* Transaction.DUST_AMOUNT
DUST_AMOUNT == 546

\* new Asset(data), data.type given: `data.lockStatus || true` is true
\* whatever data.lockStatus is, and `data.rules || []` is an array
Asset(data) ==
  Merge([aggregationPolicy |-> "aggregatable", assetId |-> "", payments |-> <<>>,
         protocol |-> ASSET_IDENTIFIER, version |-> DA_TX_VERSION, divisibility |-> 0,
         transfer |-> <<>>, rules |-> <<>>, ignoreMetadata |-> FALSE],
        With(Pick(data, {"aggregationPolicy", "assetId", "type", "payments", "amount", "to", "from",
                         "divisibility", "transfer", "metadata", "rules", "fee", "financeOutput",
                         "financeOutputTxid", "sha1", "sha2", "ignoreMetadata"}),
             "lockStatus", TRUE))

\* Asset.prototype.comupteCost(withFee): an array and an object are truthy,
\* so `this.rules || this.metadata` is whether one of them is defined
comupteCost(this, withFee) ==
  LET fee == IF withFee THEN (IF TruthyN(this, "fee") THEN this.fee ELSE MIN_FEE) ELSE 0
      perDestination == IF Has(this, "to") THEN Len(this.to) * DUST_AMOUNT ELSE 0
      surcharge == IF Has(this, "rules") \/ Has(this, "metadata") THEN 700 ELSE 0
  IN fee + perDestination + surcharge + DUST_AMOUNT

\* Asset.prototype.isInputInTx(tx, txid, index), all outputs being of one txid
isInputInTx(inputs, index) == \E i \in 1 .. Len(inputs) : inputs[i] = index

\* AddPlainUtxos that takes the outputs with assets too
RECURSIVE AddAnyUtxos(_, _, _, _)
AddAnyUtxos(st, utxos, missing, i) ==
  IF i > Len(utxos) THEN st
  ELSE LET utxo == utxos[i]
           next == IF ~isInputInTx(st.inputs, utxo.index)
                   THEN [st EXCEPT !.inputs = Append(@, utxo.index),
                                   !.amount = @ + utxo.value,
                                   !.currentAmount = @ + utxo.value]
                   ELSE st
       IN IF next.currentAmount >= missing THEN [next EXCEPT !.hasEnoughEquity = TRUE]
          ELSE AddAnyUtxos(next, utxos, missing, i + 1)

\* utxos.some(...) of insertSatoshiToTransaction from output i on, on the
\* state st = [inputs, amount, currentAmount, hasEnoughEquity]
RECURSIVE AddPlainUtxos(_, _, _, _)
AddPlainUtxos(st, utxos, missing, i) ==
  IF i > Len(utxos) THEN st
  ELSE LET utxo == utxos[i]
           next == IF ~isInputInTx(st.inputs, utxo.index) /\ utxo.assets = <<>>
                   THEN [st EXCEPT !.inputs = Append(@, utxo.index),
                                   !.amount = @ + utxo.value,
                                   !.currentAmount = @ + utxo.value]
                   ELSE st
       IN IF next.currentAmount >= missing THEN [next EXCEPT !.hasEnoughEquity = TRUE]
          ELSE AddPlainUtxos(next, utxos, missing, i + 1)

\* Asset.prototype.insertSatoshiToTransaction(utxos, tx, missing, inputsValue):
\* whether what it returns is truthy, and tx.inputs and inputsValue.amount as
\* it leaves them.  With a finance output that does not cover missing it
\* returns undefined.
insertSatoshiToTransaction(this, utxos, inputs, missing, inputsValue) ==
  IF Has(this, "financeOutput") /\ Has(this, "financeOutputTxid")
  THEN IF isInputInTx(inputs, this.financeOutput.n)
       THEN [returned |-> FALSE, inputs |-> inputs, amount |-> inputsValue]
       ELSE IF this.financeOutput.value - missing >= 0
       THEN [returned |-> TRUE, inputs |-> Append(inputs, this.financeOutput.n),
             amount |-> inputsValue + this.financeOutput.value]
       ELSE [returned |-> FALSE, inputs |-> inputs, amount |-> inputsValue]
  ELSE LET st == AddPlainUtxos([inputs |-> inputs, amount |-> inputsValue, currentAmount |-> 0,
                                hasEnoughEquity |-> FALSE], utxos, missing, 1)
       IN [returned |-> st.hasEnoughEquity, inputs |-> st.inputs, amount |-> st.amount]

\* Asset.prototype.tryAddingInputsForFee(tx, utxos, totalInputs, satoshiCost)
tryAddingInputsForFee(this, inputs, utxos, inputsValue, satoshiCost) ==
  IF satoshiCost > inputsValue
  THEN insertSatoshiToTransaction(this, utxos, inputs, satoshiCost - inputsValue, inputsValue)
  ELSE [returned |-> TRUE, inputs |-> inputs, amount |-> inputsValue]

\* self.to.forEach(...) of addInputsForSendTransaction from entry i on:
\* assetList and the order its keys were made in
RECURSIVE AssetListOf(_, _, _)
AssetListOf(st, to, i) ==
  IF i > Len(to) THEN st
  ELSE LET entry == to[i]
           known == entry.assetId \in DOMAIN st.assetList
           made == IF known THEN st.assetList[entry.assetId]
                   ELSE [amount |-> 0, addresses |-> <<>>, done |-> FALSE, change |-> 0,
                         inputs |-> <<>>]
           address == IF TruthyB(entry, "burn") THEN "burn" ELSE entry.address
           added == [made EXCEPT !.amount = @ + entry.amount,
                                 !.addresses = Append(@, [address |-> address, amount |-> entry.amount])]
       IN AssetListOf([assetList |-> With(st.assetList, entry.assetId, added),
                       order |-> IF known THEN st.order ELSE Append(st.order, entry.assetId)],
                      to, i + 1)

\* _.uniqBy(addresses, item => item.address): the first entry of each address
uniqBy(addresses) ==
  SelectSeq([i \in 1 .. Len(addresses) |-> [at |-> i, item |-> addresses[i]]],
            LAMBDA e : \A j \in 1 .. e.at - 1 : addresses[j].address # e.item.address)

\* currentAsset.inputs.some(...) for one address from input i on, on the
\* state st = [this, inputs, outputs, addressAmountLeft, threw]
RECURSIVE PayFromInputs(_, _, _)
PayFromInputs(st, address, i) ==
  IF i > Len(st.inputs) THEN st
  ELSE LET input == st.inputs[i]
           whole == st.addressAmountLeft - input.amount > 0
           amount == IF whole THEN input.amount ELSE st.addressAmountLeft
           paid == IF address = "burn"
                   THEN With(With(st.this, "payments",
                                  Append(st.this.payments, addBurn(input.index, amount, FALSE))),
                             "type", "burn")
                   ELSE With(st.this, "payments",
                             Append(st.this.payments,
                                    addPayment(input.index, amount, Len(st.outputs), FALSE, FALSE)))
           next == [st EXCEPT !.this = paid,
                              !.inputs[i].amount = @ - amount,
                              !.addressAmountLeft = @ - amount]
       IN IF input.amount = 0 THEN PayFromInputs(st, address, i + 1)
          ELSE IF address = "burn" /\ st.this.type = "issuance"
          THEN [st EXCEPT !.threw = TRUE]
          ELSE IF whole THEN PayFromInputs(next, address, i + 1)
          ELSE next

\* uniAssets.forEach(...) for one asset from address i on
RECURSIVE PayAddresses(_, _, _)
PayAddresses(st, uniAssets, i) ==
  IF i > Len(uniAssets) \/ st.threw THEN st
  ELSE LET address == uniAssets[i].item
           paid == PayFromInputs([st EXCEPT !.addressAmountLeft = address.amount], address.address, 1)
           sent == IF address.address # "burn" /\ ~paid.threw
                   THEN [paid EXCEPT !.outputs = Append(@, [address |-> address.address,
                                                            satoshis |-> DUST_AMOUNT])]
                   ELSE paid
       IN PayAddresses(sent, uniAssets, i + 1)

\* the second loop of addInputsForSendTransaction over assetList from key i
\* on, on the state st = [this, assetList, outputs, threw, notDone]: it
\* returns at the first asset that is not done
RECURSIVE PayAssets(_, _, _)
PayAssets(st, order, i) ==
  IF i > Len(order) \/ st.threw \/ st.notDone THEN st
  ELSE LET currentAsset == st.assetList[order[i]]
           paid == PayAddresses([this |-> st.this, inputs |-> currentAsset.inputs,
                                 outputs |-> st.outputs, addressAmountLeft |-> 0, threw |-> FALSE],
                                uniqBy(currentAsset.addresses), 1)
       IN IF ~currentAsset.done THEN [st EXCEPT !.notDone = TRUE]
          ELSE PayAssets([this |-> paid.this,
                          assetList |-> [st.assetList EXCEPT ![order[i]].inputs = paid.inputs],
                          outputs |-> paid.outputs, threw |-> paid.threw, notDone |-> FALSE],
                         order, i + 1)

-----------------------------------------------------------------------------
(* SpecSend: addInputsForSendTransaction(tx, utxos) on an Asset made by     *)
(* new Asset(data), tx being a new Transaction, step by step: assetList is  *)
(* made, outputs are selected asset by asset, inputs are added for the      *)
(* fee, the payments are made, the record is encoded, the change is sent.   *)

MaxDestinations == 5

\* an amount whose sffc encoding takes four bytes
LargeAmount == Pow(2, 17) + 1

\* the unspent outputs a wallet is made of: their value and asset entries
SendUtxoKinds ==
  { [value |-> 600, assets |-> <<Held("A", 10, "aggregatable"), Held("B", 7, "dispersed")>>],
    [value |-> 600, assets |-> <<Held("A", 10, "aggregatable")>>],
    [value |-> 3000, assets |-> <<Held("A", 20, "aggregatable")>>],
    [value |-> 600, assets |-> <<Held("B", 3, "dispersed"), Held("B", 2, "dispersed")>>],
    [value |-> 600, assets |-> <<>>],
    [value |-> 3000, assets |-> <<>>] }

\* self.to of a transfer and of a burn
SendTo ==
  LET pay(assetId, amount, address) == [assetId |-> assetId, amount |-> amount, address |-> address]
      burn(assetId, amount) == [assetId |-> assetId, amount |-> amount, burn |-> TRUE]
  IN { <<pay("A", 10, "a1")>>, <<pay("A", 25, "a1")>>, <<pay("A", 45, "a1")>>,
       <<pay("A", 15, "a1"), pay("A", 10, "a2")>>,
       <<pay("A", 15, "a1"), pay("A", 10, "a1")>>,
       <<pay("B", 5, "a1"), pay("A", 25, "a2")>>,
       <<pay("A", 25, "a2"), pay("B", 5, "a1")>>,
       <<pay("B", 2, "a1")>>,
       <<burn("A", 10)>>,
       <<pay("A", 15, "a1"), burn("A", 10)>>,
       <<burn("A", 5), burn("A", 10)>> }

\* the rest of data: with and without a fee, hashes, metadata and a finance
\* output, which is one of the wallet's or another one
SendOptions ==
  LET finance(n, value) == [financeOutput |-> [n |-> n, value |-> value], financeOutputTxid |-> "txid"]
      hashes == [sha1 |-> TorrentHashSample, sha2 |-> Sha2Sample]
  IN { [from |-> "from"],
       [from |-> "from", ignoreMetadata |-> TRUE],
       Merge([from |-> "from", fee |-> 2000, metadata |-> "metadata"], hashes),
       Merge([from |-> "from", fee |-> 2000, ignoreMetadata |-> TRUE], finance(9, 5000)),
       Merge([from |-> "from", fee |-> 2000, ignoreMetadata |-> TRUE], finance(9, 100)),
       Merge([from |-> "from", fee |-> 2000, ignoreMetadata |-> TRUE], finance(0, 5000)) }

\* a transfer of a large amount to each of some addresses, from a wallet of
\* one output that holds them all and one plain output
WideAddresses == <<"w1", "w2", "w3", "w4", "w5", "w6", "w7", "w8">>
WideTo(n) ==
  [i \in 1 .. n |-> [assetId |-> "A", amount |-> LargeAmount, address |-> WideAddresses[i]]]
WideUtxos ==
  << [index |-> 0, value |-> 600, assets |-> <<Held("A", MaxDestinations * LargeAmount + LargeAmount, "aggregatable")>>],
     [index |-> 1, value |-> 9000, assets |-> <<>>] >>

SendInit ==
  /\ pc = "send"
  /\ codec = "payment" /\ FlagsIdle /\ PaymentIdle /\ BulkIdle /\ SkipIdle /\ RecordIdle /\ IdIdle /\ DecodeIdle
  /\ \/ /\ \E held \in SeqUpTo(SendUtxoKinds, MaxUtxos) :
             walletUtxos = [i \in 1 .. Len(held) |-> With(held[i], "index", i - 1)]
        /\ \E to \in SendTo, options \in SendOptions :
             assetData = Merge(options, [type |-> "transfer", to |-> to])
     \/ /\ walletUtxos = WideUtxos
        /\ \E n \in 1 .. MaxDestinations, options \in SendOptions :
             assetData = Merge(options, [type |-> "transfer", to |-> WideTo(n)])
  /\ assetObj = Asset(assetData)
  /\ encodeLog = <<>>
  /\ burnRes = NoResult
  /\ neededAssets = <<>>
  /\ assetOrder = <<>>
  /\ txInputs = <<>>
  /\ totalInputs = 0
  /\ selCall = NoResult
  /\ selRes = NoResult
  /\ sendStep = "start"
  /\ sendRes = NoResult
  /\ txOutputs = <<>>

\* lines 700 to 720: assetList is made from self.to
SendStart ==
  /\ pc = "send"
  /\ sendStep = "start"
  /\ \E made \in {AssetListOf([assetList |-> <<>>, order |-> <<>>], assetObj.to, 1)} :
       /\ neededAssets' = made.assetList
       /\ assetOrder' = made.order
  /\ sendStep' = "assets"
  /\ UNCHANGED <<pc, walletUtxos, txInputs, totalInputs, selCall, selRes, sendRes, txOutputs,
                 assetData, flagsVars, paymentVars, bulkVars, skipVars, recordVars, idVars,
                 assetVars, decodeVars>>

\* one turn of the first loop over assetList, and the leaving of the loop
SendSelect ==
  /\ pc = "send"
  /\ sendStep = "assets"
  /\ IF assetOrder = <<>>
     THEN /\ sendStep' = "fee"
          /\ UNCHANGED <<neededAssets, assetOrder, txInputs, totalInputs, selCall, selRes, sendRes>>
     ELSE \E key \in {Head(assetOrder)} :
          \E assetUtxos \in {AssetUtxos(walletUtxos, key)} :
          \E match \in {findBestMatchByNeededAssets(assetUtxos, neededAssets, key, txInputs, totalInputs)} :
            /\ assetOrder' = Tail(assetOrder)
            /\ selCall' = [key |-> key, utxos |-> assetUtxos, assetList |-> neededAssets,
                           inputs |-> txInputs]
            /\ IF assetUtxos = <<>>
               THEN /\ selRes' = Threw("No output with that asset")
                    /\ sendRes' = Threw("No output with that asset")
                    /\ sendStep' = "ended"
                    /\ UNCHANGED <<neededAssets, txInputs, totalInputs>>
               ELSE IF ~match.returned
               THEN /\ selRes' = Threw("Not enough assets")
                    /\ sendRes' = Threw("Not enough assets")
                    /\ sendStep' = "ended"
                    /\ UNCHANGED <<neededAssets, txInputs, totalInputs>>
               ELSE /\ selRes' = Returned([selectedUtxos |-> match.selectedUtxos])
                    /\ neededAssets' = match.assetList
                    /\ txInputs' = match.inputs
                    /\ totalInputs' = match.amount
                    /\ UNCHANGED <<sendStep, sendRes>>
  /\ UNCHANGED <<pc, walletUtxos, txOutputs, assetData, flagsVars, paymentVars, bulkVars, skipVars,
                 recordVars, idVars, assetVars, decodeVars>>

\* lines 742 to 744: inputs for the cost of the transaction
SendFee ==
  /\ pc = "send"
  /\ sendStep = "fee"
  /\ \E covered \in {tryAddingInputsForFee(assetObj, txInputs, walletUtxos, totalInputs,
                                           comupteCost(assetObj, TRUE))} :
       /\ txInputs' = covered.inputs
       /\ totalInputs' = covered.amount
       /\ sendStep' = IF covered.returned THEN "payout" ELSE "ended"
       /\ sendRes' = IF covered.returned THEN sendRes ELSE Threw("Not enough funds")
  /\ UNCHANGED <<pc, walletUtxos, neededAssets, assetOrder, selCall, selRes, txOutputs, assetData,
                 flagsVars, paymentVars, bulkVars, skipVars, recordVars, idVars, assetVars,
                 decodeVars>>

\* lines 745 to 782: the payments and the outputs of the addresses
SendPayout ==
  /\ pc = "send"
  /\ sendStep = "payout"
  /\ \E order \in {AssetListOf([assetList |-> <<>>, order |-> <<>>], assetObj.to, 1).order} :
     \E paid \in {PayAssets([this |-> assetObj, assetList |-> neededAssets, outputs |-> txOutputs,
                             threw |-> FALSE, notDone |-> FALSE], order, 1)} :
       /\ assetObj' = paid.this
       /\ neededAssets' = paid.assetList
       /\ txOutputs' = paid.outputs
       /\ sendStep' = IF paid.threw \/ paid.notDone THEN "ended" ELSE "encode"
       /\ sendRes' = IF paid.threw THEN Threw("Can't add burn payment to an issuance transaction")
                     ELSE IF paid.notDone THEN Returned([error |-> "Not enough Assets"])
                     ELSE sendRes
  /\ UNCHANGED <<pc, walletUtxos, assetOrder, txInputs, totalInputs, selCall, selRes, assetData,
                 encodeLog, burnRes, flagsVars, paymentVars, bulkVars, skipVars, recordVars, idVars,
                 decodeVars>>

\* the payments' outputs, each once, in the order they come
RECURSIVE OutputIndexes(_, _, _)
OutputIndexes(list, i, found) ==
  IF i > Len(list) THEN found
  ELSE OutputIndexes(list, i + 1,
                     IF Has(list[i], "output") /\ \A j \in 1 .. Len(found) : found[j] # list[i].output
                     THEN Append(found, list[i].output) ELSE found)

\* lines 783 to 814: the hashes are set, the record is encoded and put in a
\* data output.  Asset has no shiftOutputs, so the call made on a leftover
\* throws a TypeError.
SendEncode ==
  /\ pc = "send"
  /\ sendStep = "encode"
  /\ IF (Has(assetObj, "metadata") \/ Has(assetObj, "rules")) /\ ~assetObj.ignoreMetadata
        /\ ~(Has(assetObj, "sha1") /\ Has(assetObj, "sha2"))
     THEN /\ sendRes' = Threw("Missing Torrenthash!")
          /\ sendStep' = "ended"
          /\ UNCHANGED <<assetObj, encodeLog, txOutputs>>
     ELSE \E self \in {IF (Has(assetObj, "metadata") \/ Has(assetObj, "rules"))
                          /\ ~assetObj.ignoreMetadata
                       THEN With(With(assetObj, "torrentHash", assetObj.sha1), "sha2", assetObj.sha2)
                       ELSE assetObj} :
          \E skipped \in {With(self, "payments", paymentsInputToSkip(self.payments))} :
          \E result \in {encode(skipped, MAXBYTESIZE)} :
            /\ assetObj' = IF IsReturned(result)
                           THEN With(skipped, "payments", paymentsSkipToInput(skipped.payments))
                           ELSE skipped
            /\ encodeLog' = Append(encodeLog, [before |-> self, result |-> result, after |-> assetObj'])
            /\ IF IsThrew(result)
               THEN /\ sendRes' = result
                    /\ sendStep' = "ended"
                    /\ UNCHANGED txOutputs
               ELSE IF result.value.leftover # <<>>
               THEN /\ sendRes' = Threw("TypeError")
                    /\ sendStep' = "ended"
                    /\ UNCHANGED txOutputs
               ELSE /\ txOutputs' = Append(txOutputs, [data |-> result.value.codeBuffer, satoshis |-> 0])
                    /\ sendStep' = "change"
                    /\ UNCHANGED sendRes
  /\ UNCHANGED <<pc, walletUtxos, neededAssets, assetOrder, txInputs, totalInputs, selCall, selRes,
                 assetData, burnRes, flagsVars, paymentVars, bulkVars, skipVars, recordVars, idVars,
                 decodeVars>>

\* lines 815 to 837: the change output.  self.flags is never set, so there is
\* one change output; without a fee the change is NaN, which is below
\* nothing; getInputAmountNeededForTx calls a method of `this` in a callback,
\* where `this` is not the Asset, which throws a TypeError.
SendChange ==
  /\ pc = "send"
  /\ sendStep = "change"
  /\ LET allOutputValues == SumOver([i \in 1 .. Len(txOutputs) |-> txOutputs[i].satoshis],
                                    1 .. Len(txOutputs))
         lastOutputValue == totalInputs - (allOutputValues + assetObj.fee)
         coloredChange == \E assetId \in DOMAIN neededAssets : neededAssets[assetId].change > 0
         coloredOutputIndexes ==
           OutputIndexes(assetObj.payments, 1, <<>>)
             \o (IF coloredChange /\ \A i \in 1 .. Len(assetObj.payments) :
                                       Has(assetObj.payments[i], "output")
                                         => assetObj.payments[i].output # Len(txOutputs)
                 THEN <<Len(txOutputs)>> ELSE <<>>)
     IN IF ~Has(assetObj, "fee")
        THEN /\ txOutputs' = Append(txOutputs, [address |-> assetObj.from, nan |-> TRUE])
             /\ sendRes' = Returned([multisigOutputs |-> <<>>,
                                     coloredOutputIndexes |-> coloredOutputIndexes])
        ELSE IF lastOutputValue < DUST_AMOUNT
        THEN /\ sendRes' = Threw("TypeError")
             /\ UNCHANGED txOutputs
        ELSE /\ txOutputs' = Append(txOutputs, [address |-> assetObj.from, satoshis |-> lastOutputValue])
             /\ sendRes' = Returned([multisigOutputs |-> <<>>,
                                     coloredOutputIndexes |-> coloredOutputIndexes])
  /\ sendStep' = "ended"
  /\ UNCHANGED <<pc, walletUtxos, neededAssets, assetOrder, txInputs, totalInputs, selCall, selRes,
                 assetData, flagsVars, paymentVars, bulkVars, skipVars, recordVars, idVars,
                 assetVars, decodeVars>>

SendNext == SendStart \/ SendSelect \/ SendFee \/ SendPayout \/ SendEncode \/ SendChange

SpecSend == SendInit /\ [][SendNext]_vars

-----------------------------------------------------------------------------
(* The cost of the transaction *)

\* C26: once the cost is computed, it is the fee (MIN_FEE when none is
\* given) plus one dust unit per destination plus one base dust unit, plus
\* the surcharge of 700 only when the Asset was made with rules or metadata;
\* an Asset made without rules and without metadata is not charged it.
CostWithSurchargeOnlyForRulesOrMetadata ==
  sendStep # "start" =>
    comupteCost(assetObj, TRUE)
      = (IF Has(assetData, "fee") THEN assetData.fee ELSE MIN_FEE)
          + Len(assetData.to) * DUST_AMOUNT
          + DUST_AMOUNT
          + (IF Has(assetData, "rules") \/ Has(assetData, "metadata") THEN 700 ELSE 0)

-----------------------------------------------------------------------------
(* The allocation of the assets *)

\* what self.to asks of an asset in all, and what the outputs of the wallet
\* hold of it in all
RequestedAssets == {assetData.to[i].assetId : i \in 1 .. Len(assetData.to)}
Requested(assetId) ==
  SumOver([i \in 1 .. Len(assetData.to) |->
             IF assetData.to[i].assetId = assetId THEN assetData.to[i].amount ELSE 0],
          1 .. Len(assetData.to))
PoolHolding(assetId) ==
  SumOver([i \in 1 .. Len(walletUtxos) |-> getUtxoAssetAmount(walletUtxos[i], assetId)],
          1 .. Len(walletUtxos))

\* C21: when the wallet holds less of a requested asset than is requested of
\* it in all, the assembly fails with the error of assets that lack, and so
\* never gets past the loop that selects the outputs.
InsufficientAssetsFail ==
  (sendStep \notin {"start", "assets"}
     /\ \E assetId \in RequestedAssets : PoolHolding(assetId) < Requested(assetId)) =>
    sendRes \in {Threw("Not enough assets"), Threw("No output with that asset")}

\* the output of the wallet that the input at a position of tx.inputs spends
SpentAt(inputIndex) == walletUtxos[txInputs[inputIndex + 1] + 1]

\* C22: an amount is merged into the preceding record only when it comes
\* from the same output as that record, so at every step of the allocation
\* the amount of each record of each asset is drawn only from the output at
\* the record's input index: it is at most what that output holds of the
\* asset.
RecordsDrawnFromTheirOutput ==
  sendStep = "assets" =>
    \A assetId \in DOMAIN neededAssets :
      \A i \in 1 .. Len(neededAssets[assetId].inputs) :
        LET input == neededAssets[assetId].inputs[i]
        IN input.amount <= getUtxoAssetAmount(SpentAt(input.index), assetId)

\* the sum of the amounts of the records of an asset
RecordsSum(assetId, assetList) ==
  SumOver([i \in 1 .. Len(assetList[assetId].inputs) |-> assetList[assetId].inputs[i].amount],
          1 .. Len(assetList[assetId].inputs))

\* what the entries of an asset add up to over the outputs selected by the
\* last call, up to entry e of output u, and over the outputs before output u
HeldThrough(assetId, u, e) ==
  LET selectedUtxos == selRes.value.selectedUtxos
  IN SumOver([i \in 1 .. u - 1 |-> getUtxoAssetAmount(selectedUtxos[i], assetId)], 1 .. u - 1)
       + SumOver([j \in 1 .. e |-> IF selectedUtxos[u].assets[j].assetId = assetId
                                   THEN selectedUtxos[u].assets[j].amount ELSE 0], 1 .. e)
HeldBefore(assetId, u) == HeldThrough(assetId, u, 0)

\* the last call made the asset done
BecameDone(assetId) ==
  /\ IsReturned(selRes)
  /\ neededAssets[assetId].done
  /\ ~selCall.assetList[assetId].done

\* entry e of selected output u is the one at which the asset became done:
\* the first at which what was taken reaches what the call still needed
SatisfyingEntry(assetId, u, e) ==
  /\ u \in 1 .. Len(selRes.value.selectedUtxos)
  /\ e \in 1 .. Len(selRes.value.selectedUtxos[u].assets)
  /\ selRes.value.selectedUtxos[u].assets[e].assetId = assetId
  /\ HeldThrough(assetId, u, e) >= selCall.assetList[assetId].amount
  /\ HeldThrough(assetId, u, e - 1) < selCall.assetList[assetId].amount

\* the records of every asset and its need that remains add up to what was
\* requested of it
AllocationConserved ==
  \A assetId \in DOMAIN neededAssets :
    RecordsSum(assetId, neededAssets)
      + (IF neededAssets[assetId].done THEN 0 ELSE neededAssets[assetId].amount)
      = Requested(assetId)

\* C23: at every step of the allocation the records of an asset
\* and its remaining need add up to the requested total, and when an asset
\* becomes done its change is what the output that made it done holds of it
\* minus the need that remained before that output.
AllocationConservedChangeOfOutput ==
  sendStep \in {"assets", "fee"} =>
    /\ AllocationConserved
    /\ \A assetId \in DOMAIN neededAssets :
         BecameDone(assetId) =>
           \A u \in 1 .. Len(selRes.value.selectedUtxos) :
             (\E e \in 1 .. Len(selRes.value.selectedUtxos[u].assets) : SatisfyingEntry(assetId, u, e)) =>
               neededAssets[assetId].change
                 = getUtxoAssetAmount(selRes.value.selectedUtxos[u], assetId)
                     - (selCall.assetList[assetId].amount - HeldBefore(assetId, u))

-----------------------------------------------------------------------------
(* The payout to the addresses *)

\* the sum of the amounts of the payments of the Asset
PaymentsSum ==
  SumOver([i \in 1 .. Len(assetObj.payments) |-> assetObj.payments[i].amount],
          1 .. Len(assetObj.payments))

\* C24: after the payout the payments sum to what self.to requests, entry by
\* entry, the burns included, and so in all; every record of assetList is
\* reduced by what was paid from it and is not below zero.
PayoutPaysEveryEntry ==
  sendStep = "encode" =>
    /\ PaymentsSum
         = SumOver([i \in 1 .. Len(assetData.to) |-> assetData.to[i].amount], 1 .. Len(assetData.to))
    /\ \A assetId \in DOMAIN neededAssets :
         \A i \in 1 .. Len(neededAssets[assetId].inputs) : neededAssets[assetId].inputs[i].amount >= 0
    /\ SumOver([assetId \in DOMAIN neededAssets |-> RecordsSum(assetId, neededAssets)],
               DOMAIN neededAssets)
         = SumOver([assetId \in DOMAIN neededAssets |-> Requested(assetId)], DOMAIN neededAssets)
             - PaymentsSum

-----------------------------------------------------------------------------
(* The inputs for the cost *)

\* what the inputs lack of the cost before inputs are added for it, and what
\* the outputs of the wallet without assets that are not yet spent are worth
Shortfall == comupteCost(assetObj, TRUE) - totalInputs
PlainAvailable ==
  SumOver([i \in 1 .. Len(walletUtxos) |->
             IF walletUtxos[i].assets = <<>> /\ ~isInputInTx(txInputs, walletUtxos[i].index)
             THEN walletUtxos[i].value ELSE 0],
          1 .. Len(walletUtxos))
FinanceConfigured == Has(assetObj, "financeOutput") /\ Has(assetObj, "financeOutputTxid")

\* the step that adds the inputs for the cost, and its two ways out
FeeStep == sendStep = "fee" /\ sendStep' # "fee"
FeeCovered == FeeStep /\ sendStep' = "payout"
FeeFailed == FeeStep /\ sendStep' = "ended" /\ sendRes' = Threw("Not enough funds")

\* on success the inputs are worth the cost at least, and the inputs added
\* are outputs without assets that were not in the transaction, or the
\* finance output, configured and worth the shortfall
FeeCoveredByPlainOrFinance ==
  FeeCovered =>
    /\ totalInputs' >= comupteCost(assetObj, TRUE)
    /\ SubSeq(txInputs', 1, Len(txInputs)) = txInputs
    /\ \A k \in Len(txInputs) + 1 .. Len(txInputs') :
         /\ ~isInputInTx(txInputs, txInputs'[k])
         /\ \/ /\ FinanceConfigured
               /\ txInputs'[k] = assetObj.financeOutput.n
               /\ assetObj.financeOutput.value >= Shortfall
            \/ /\ ~FinanceConfigured
               /\ \E i \in 1 .. Len(walletUtxos) :
                    walletUtxos[i].index = txInputs'[k] /\ walletUtxos[i].assets = <<>>

\* C25 as stated: on success the inputs cover the cost and the inputs added
\* are plain outputs not yet in the transaction or the finance output; when
\* the plain outputs of the wallet cannot cover the shortfall, the coverage
\* fails and the assembly fails with the error of funds that lack.
FeeCoverageFailsWithoutPlain ==
  [][/\ FeeCoveredByPlainOrFinance
     /\ (FeeStep /\ Shortfall > 0 /\ PlainAvailable < Shortfall) => FeeFailed]_vars

\* C25 with no finance output in the failure: on success the inputs cover the
\* cost and the inputs added are plain outputs not yet in the transaction or
\* the finance output; when no finance output is configured and the plain
\* outputs of the wallet cannot cover the shortfall, the coverage fails and
\* the assembly fails with the error of funds that lack.
FeeCoverage ==
  [][/\ FeeCoveredByPlainOrFinance
     /\ (FeeStep /\ ~FinanceConfigured /\ Shortfall > 0 /\ PlainAvailable < Shortfall) => FeeFailed]_vars

\* the cost was covered by two plain outputs added to an input with assets
FeeCoverageWitness ==
  /\ sendStep = "payout"
  /\ ~FinanceConfigured
  /\ Len(txInputs) = 3
  /\ walletUtxos[txInputs[1] + 1].assets # <<>>
  /\ walletUtxos[txInputs[2] + 1].assets = <<>>
  /\ walletUtxos[txInputs[3] + 1].assets = <<>>
  /\ totalInputs >= comupteCost(assetObj, TRUE)

-----------------------------------------------------------------------------
(* The encode of the assembly and its leftover *)

\* the first encode of the assembly returned hashes that did not fit
FirstEncodeLeftover ==
  /\ Len(encodeLog) >= 1
  /\ IsReturned(encodeLog[1].result)
  /\ encodeLog[1].result.value.leftover # <<>>

\* C27: when the first encode of the assembly returns leftover hashes, the
\* record is encoded once more, twice in all, and the assembly goes on to
\* add the data output and complete.
LeftoverEncodedTwice ==
  (sendStep \in {"change", "ended"} /\ FirstEncodeLeftover) =>
    /\ Len(encodeLog) = 2
    /\ \E i \in 1 .. Len(txOutputs) : Has(txOutputs[i], "data")
    /\ sendRes # Threw("TypeError")

-----------------------------------------------------------------------------
(* The identifier of an unlocked asset, and the identifier once derived *)

\* C28: getAssetId on an unlocked asset and a first input with a known
\* previous output script returns an identifier, for every aggregation
\* policy: it does not fail.
UnlockedIdFromPreviousOutput ==
  \A i \in 1 .. Len(idLog) :
    (~Locked(idLog[i]) /\ Has(idLog[i].firstInput, "previousOutput")) => IsReturned(idLog[i].res)

\* C29: once getAssetId has returned an identifier, the assetId of the Asset
\* stays that identifier, whatever setter or further derivation comes after.
AssetIdStable ==
  \A i \in 1 .. Len(idLog) :
    (IsReturned(idLog[i].res) /\ \A j \in 1 .. i - 1 : ~IsReturned(idLog[j].res)) =>
      issued.assetId = idLog[i].res.value

-----------------------------------------------------------------------------
(* The type of an Asset and its burn payments *)

\* C30: in every state that addPayment, addBurn, setAmount, setLockStatus and
\* setAggregationPolicy lead to, an Asset of type 'issuance' holds no payment
\* with burn = true; addBurn on an issuance fails and leaves payments and type
\* as they were, and an addBurn that succeeds leaves the type 'burn'.
IssuanceHoldsNoBurn ==
  /\ (encodeLog = <<>> /\ assetObj.type = "issuance") =>
       \A i \in 1 .. Len(assetObj.payments) : ~TruthyB(assetObj.payments[i], "burn")
  /\ burnRes # NoResult =>
       /\ burnRes.before.type = "issuance" =>
            /\ IsThrew(burnRes.result)
            /\ burnRes.after.payments = burnRes.before.payments
            /\ burnRes.after.type = burnRes.before.type
       /\ IsReturned(burnRes.result) => burnRes.after.type = "burn"

====
